---- MODULE Spec2Model ----
\* A model of the evaluation broker of nomad/eval_broker.go: the broker's
\* tables, its statistics, its timers (nack timers, wait timers, the timer of
\* the delayed-evals watcher) and the operations that run under its lock.
EXTENDS Bags, FiniteSets, Integers, Sequences, TLC

\* ---------------------------------------------------------------- bounds

\* how many tokens dequeueForSched may generate in one behaviour
MaxTokens == 3
\* how many times SetEnabled may switch the broker from disabled to enabled
MaxEpochs == 2
\* how many expirations of one nack timer may wait for the lock at once
MaxPending == 1
\* how many calls of Dequeue between scan and wait, and goroutines of such
\* calls in their select, there may be before a further call starts to wait
MaxWaiters == 1

\* ---------------------------------------------------------------- constants

failedQueue == "_failed"

\* the empty token that Enqueue passes to processEnqueue
NoToken == 0

\* the zero time.Time (WaitUntil.IsZero())
ZeroTime == 0

VARIABLES
    deliveryLimit,          \* EvalBroker.deliveryLimit
    initialNackDelay,       \* EvalBroker.initialNackDelay
    subsequentNackDelay,    \* EvalBroker.subsequentNackDelay
    enabled,                \* EvalBroker.enabled
    stats,                  \* EvalBroker.stats
    evals,                  \* EvalBroker.evals: id -> dequeue count
    jobEvals,               \* EvalBroker.jobEvals: <<namespace, job>> -> id
    blocked,                \* EvalBroker.blocked: <<namespace, job>> -> heap
    ready,                  \* EvalBroker.ready: scheduler -> heap
    unack,                  \* EvalBroker.unack: id -> unackEval
    waiting,                \* EvalBroker.waiting: scheduler -> 1-slot channel
    requeue,                \* EvalBroker.requeue: token -> evaluation
    timeWait,               \* EvalBroker.timeWait: id -> wait timer
    delayHeap,              \* EvalBroker.delayHeap
    delayedEvalsUpdateCh,   \* EvalBroker.delayedEvalsUpdateCh (its one slot)
    nackTimers,             \* the time.AfterFunc timers of dequeueForSched, by token
    orphanTimers,           \* wait timers that timeWait no longer refers to
    watchers,               \* the runDelayedEvalsWatcher goroutines, by epoch
    panicked,               \* the process died of a nil dereference
    nextToken,              \* the next token uuid.Generate returns
    epoch,                  \* how many times the broker was enabled
    now,                    \* the wall clock
    pool,                   \* the evaluations the producers submit
    last,                   \* the last call that found the broker disabled
    dequeuers,              \* the Dequeue calls in progress, by caller
    waiters                 \* the Dequeue calls with a timeout that found nothing

cfgVars == <<deliveryLimit, initialNackDelay, subsequentNackDelay, pool>>
brokerVars == <<enabled, stats, evals, jobEvals, blocked, ready, unack, waiting,
                requeue, timeWait, delayHeap, delayedEvalsUpdateCh, nackTimers,
                orphanTimers, panicked>>
vars == <<deliveryLimit, initialNackDelay, subsequentNackDelay, pool,
          enabled, stats, evals, jobEvals, blocked, ready, unack, waiting,
          requeue, timeWait, delayHeap, delayedEvalsUpdateCh, nackTimers,
          orphanTimers, panicked, watchers, nextToken, epoch, now, last,
          dequeuers, waiters>>

\* ---------------------------------------------------------------- maps

EmptyMap == [x \in {} |-> x]

Put(m, k, v) == [x \in DOMAIN m \cup {k} |-> IF x = k THEN v ELSE m[x]]

Del(m, k) == [x \in DOMAIN m \ {k} |-> m[x]]

Has(m, k) == k \in DOMAIN m

\* ---------------------------------------------------------------- evaluations

\* structs.Evaluation, the fields the broker reads
Eval(id, ns, job, type, prio, ci, wait, until) ==
    [ID |-> id, Namespace |-> ns, JobID |-> job, Type |-> type,
     Priority |-> prio, CreateIndex |-> ci, Wait |-> wait, WaitUntil |-> until]

\* the nil *structs.Evaluation
NilEval == Eval("", "", "", "", 0, 0, 0, 0)

\* structs.NamespacedID of an evaluation's job
NamespacedID(e) == <<e.Namespace, e.JobID>>

\* ---------------------------------------------------------------- PendingEvaluations

\* Less that compares the priorities of evaluations of one job too
LessByPriority(p, i, j) ==
    IF p[i].Priority # p[j].Priority
    THEN ~(p[i].Priority < p[j].Priority)
    ELSE p[i].CreateIndex < p[j].CreateIndex

\* PendingEvaluations.Less on the 1-based positions i, j of p
Less(p, i, j) ==
    IF p[i].JobID # p[j].JobID /\ p[i].Priority # p[j].Priority
    THEN ~(p[i].Priority < p[j].Priority)
    ELSE p[i].CreateIndex < p[j].CreateIndex

\* PendingEvaluations.Swap
Swap(p, i, j) == [p EXCEPT ![i] = p[j], ![j] = p[i]]

\* container/heap up(h, j), positions 1-based (the parent of j is j \div 2)
RECURSIVE up(_, _)
up(p, j) ==
    IF j = 1 THEN p
    ELSE LET i == j \div 2
         IN IF ~Less(p, j, i) THEN p ELSE up(Swap(p, i, j), i)

\* container/heap down(h, i, n), positions 1-based
RECURSIVE down(_, _, _)
down(p, i, n) ==
    LET j1 == 2 * i
    IN IF j1 > n THEN p
       ELSE LET j == IF j1 + 1 <= n /\ Less(p, j1 + 1, j1) THEN j1 + 1 ELSE j1
            IN IF ~Less(p, j, i) THEN p ELSE down(Swap(p, i, j), j, n)

\* heap.Push(&p, x): append, then sift up
heapPush(p, x) == up(Append(p, x), Len(p) + 1)

\* the slice after heap.Pop(&p): swap first and last, sift down, drop the last
heapPopRest(p) ==
    LET n == Len(p)
    IN SubSeq(down(Swap(p, 1, n), 1, n - 1), 1, n - 1)

\* the element heap.Pop(&p) returns
heapPopElem(p) ==
    LET n == Len(p)
    IN down(Swap(p, 1, n), 1, n - 1)[n]

\* PendingEvaluations.Peek: the last element of the slice
Peek(p) == IF Len(p) = 0 THEN NilEval ELSE p[Len(p)]

\* ---------------------------------------------------------------- the broker as a value

\* the fields of the broker that the locked operations read and write
B == [enabled |-> enabled, stats |-> stats, evals |-> evals,
      jobEvals |-> jobEvals, blocked |-> blocked, ready |-> ready,
      unack |-> unack, waiting |-> waiting, requeue |-> requeue,
      timeWait |-> timeWait, delayHeap |-> delayHeap,
      delayedEvalsUpdateCh |-> delayedEvalsUpdateCh,
      nackTimers |-> nackTimers, orphanTimers |-> orphanTimers,
      panicked |-> panicked]

\* a timer is dropped from the model once it can no longer act: it is
\* neither active, nor has a callback waiting, nor is held by an unack entry
LiveTimers(s) ==
    LET held == {s.unack[id].Token : id \in DOMAIN s.unack}
        keep == {t \in DOMAIN s.nackTimers :
                    \/ s.nackTimers[t].Active
                    \/ s.nackTimers[t].Pending > 0
                    \/ t \in held}
    IN [t \in keep |-> s.nackTimers[t]]

\* the broker's fields after an operation that left it as s
Commit(s) ==
    /\ enabled' = s.enabled
    /\ stats' = s.stats
    /\ evals' = s.evals
    /\ jobEvals' = s.jobEvals
    /\ blocked' = s.blocked
    /\ ready' = s.ready
    /\ unack' = s.unack
    /\ waiting' = s.waiting
    /\ requeue' = s.requeue
    /\ timeWait' = s.timeWait
    /\ delayHeap' = s.delayHeap
    /\ delayedEvalsUpdateCh' = s.delayedEvalsUpdateCh
    /\ nackTimers' = LiveTimers(s)
    /\ orphanTimers' = s.orphanTimers
    /\ panicked' = s.panicked

\* new(BrokerStats) with an empty ByScheduler
NewStats == [TotalReady |-> 0, TotalUnacked |-> 0, TotalBlocked |-> 0,
             TotalWaiting |-> 0, ByScheduler |-> EmptyMap]

\* &SchedulerStats{}
NewSchedulerStats == [Ready |-> 0, Unacked |-> 0]

\* ---------------------------------------------------------------- enqueue

\* enqueueLocked without the test of jobEvals: nothing is ever blocked
enqueueLockedNeverBlocks(s, eval, queue) ==
    IF ~s.enabled THEN s
    ELSE
      LET namespacedID == NamespacedID(eval)
          pending == IF Has(s.ready, queue) THEN s.ready[queue] ELSE << >>
          waiting1 == IF ~Has(s.ready, queue) /\ ~Has(s.waiting, queue)
                      THEN Put(s.waiting, queue, 0) ELSE s.waiting
          bySched == IF Has(s.stats.ByScheduler, queue)
                     THEN s.stats.ByScheduler[queue] ELSE NewSchedulerStats
      IN [s EXCEPT
            !.jobEvals = Put(s.jobEvals, namespacedID, eval.ID),
            !.ready = Put(s.ready, queue, heapPush(pending, eval)),
            !.stats.TotalReady = @ + 1,
            !.stats.ByScheduler =
                Put(@, queue, [bySched EXCEPT !.Ready = @ + 1]),
            !.waiting = IF Has(waiting1, queue)
                        THEN Put(waiting1, queue, 1) ELSE waiting1]

\* EvalBroker.enqueueLocked
enqueueLocked(s, eval, queue) ==
    IF ~s.enabled THEN s
    ELSE
      LET namespacedID == NamespacedID(eval)
          pendingEval == IF Has(s.jobEvals, namespacedID)
                         THEN s.jobEvals[namespacedID] ELSE ""
      IN IF pendingEval # "" /\ pendingEval # eval.ID
         THEN LET old == IF Has(s.blocked, namespacedID)
                         THEN s.blocked[namespacedID] ELSE << >>
              IN [s EXCEPT
                    !.blocked = Put(s.blocked, namespacedID, heapPush(old, eval)),
                    !.stats.TotalBlocked = @ + 1]
         ELSE
           LET ok == Has(s.ready, queue)
               pending == IF ok THEN s.ready[queue] ELSE << >>
               waiting1 == IF ~ok /\ ~Has(s.waiting, queue)
                           THEN Put(s.waiting, queue, 0) ELSE s.waiting
               bySched == IF Has(s.stats.ByScheduler, queue)
                          THEN s.stats.ByScheduler[queue] ELSE NewSchedulerStats
           IN [s EXCEPT
                 !.jobEvals = IF pendingEval = ""
                              THEN Put(s.jobEvals, namespacedID, eval.ID) ELSE @,
                 !.ready = Put(s.ready, queue, heapPush(pending, eval)),
                 !.stats.TotalReady = @ + 1,
                 !.stats.ByScheduler =
                     Put(@, queue, [bySched EXCEPT !.Ready = @ + 1]),
                 \* the non-blocking send on waiting[queue]
                 !.waiting = IF Has(waiting1, queue)
                             THEN Put(waiting1, queue, 1) ELSE waiting1]

\* EvalBroker.processWaitingEnqueue: a new timer replaces the handle in
\* timeWait; a handle it overwrites keeps running without being referred to
processWaitingEnqueue(s, eval) ==
    LET id == eval.ID
        orphans == IF Has(s.timeWait, id)
                   THEN s.orphanTimers (+) SetToBag({s.timeWait[id]})
                   ELSE s.orphanTimers
    IN [s EXCEPT
          !.orphanTimers = orphans,
          !.timeWait = Put(s.timeWait, id, [Eval |-> eval, Fired |-> FALSE]),
          !.stats.TotalWaiting = @ + 1]

\* processEnqueue without the test of b.enabled
processEnqueueWhileDisabled(s, eval, token) ==
    IF Has(s.evals, eval.ID)
    THEN IF token = NoToken THEN s
         ELSE IF Has(s.unack, eval.ID) /\ s.unack[eval.ID].Token = token
              THEN [s EXCEPT !.requeue = Put(s.requeue, token, eval)]
              ELSE s
    ELSE
      LET s1 == [s EXCEPT !.evals = Put(s.evals, eval.ID, 0)]
      IN IF eval.Wait > 0 THEN processWaitingEnqueue(s1, eval)
         ELSE IF eval.WaitUntil # ZeroTime
         THEN [s1 EXCEPT
                 !.delayHeap = @ \cup {eval},
                 !.stats.TotalWaiting = @ + 1,
                 !.delayedEvalsUpdateCh = 1]
         ELSE enqueueLocked(s1, eval, eval.Type)

\* EvalBroker.processEnqueue
processEnqueue(s, eval, token) ==
    IF ~s.enabled THEN s
    ELSE IF Has(s.evals, eval.ID)
    THEN IF token = NoToken THEN s
         ELSE IF Has(s.unack, eval.ID) /\ s.unack[eval.ID].Token = token
              THEN [s EXCEPT !.requeue = Put(s.requeue, token, eval)]
              ELSE s
    ELSE
      LET s1 == [s EXCEPT !.evals = Put(s.evals, eval.ID, 0)]
      IN IF eval.Wait > 0 THEN processWaitingEnqueue(s1, eval)
         ELSE IF eval.WaitUntil # ZeroTime
         THEN [s1 EXCEPT
                 !.delayHeap = @ \cup {eval},
                 !.stats.TotalWaiting = @ + 1,
                 !.delayedEvalsUpdateCh = 1]
         ELSE enqueueLocked(s1, eval, eval.Type)

\* EvalBroker.enqueueWaiting, the callback of a wait timer
enqueueWaiting(s, eval) ==
    enqueueLocked([s EXCEPT !.timeWait = Del(s.timeWait, eval.ID),
                            !.stats.TotalWaiting = @ - 1],
                  eval, eval.Type)

\* ---------------------------------------------------------------- dequeue

\* the scan loop of scanForSchedulers: the schedulers whose Peek has the
\* greatest priority among the requested ones that have something to peek at
eligibleSched(s, schedulers) ==
    LET nonEmpty == {sched \in schedulers :
                        Has(s.ready, sched) /\ Peek(s.ready[sched]) # NilEval}
    IN {sched \in nonEmpty :
           \A other \in nonEmpty :
               Peek(s.ready[sched]).Priority >= Peek(s.ready[other]).Priority}

\* Timer.Stop and Timer.Reset return whether the timer was active
TimerActive(s, token) == s.nackTimers[token].Active

\* the timer after Timer.Stop
TimerStop(s, token) == [s EXCEPT !.nackTimers[token].Active = FALSE]

\* the timer after Timer.Reset(b.nackTimeout)
TimerReset(s, token) ==
    [s EXCEPT !.nackTimers[token].Active = TRUE,
              !.nackTimers[token].Fired = FALSE]

\* EvalBroker.dequeueForSched with the token uuid.Generate returned
dequeueForSched(s, sched, token) ==
    LET pending == s.ready[sched]
        eval == heapPopElem(pending)
        count == IF Has(s.evals, eval.ID) THEN s.evals[eval.ID] ELSE 0
    IN [s EXCEPT
          !.ready = Put(s.ready, sched, heapPopRest(pending)),
          !.nackTimers = Put(s.nackTimers, token,
                             [ID |-> eval.ID, Active |-> TRUE,
                              Fired |-> FALSE, Pending |-> 0]),
          \* Queue is not a field of unackEval: it records the ready queue
          \* the evaluation was popped from
          !.unack = Put(s.unack, eval.ID,
                        [Eval |-> eval, Token |-> token, Queue |-> sched]),
          !.evals = Put(s.evals, eval.ID, count + 1),
          !.stats.TotalReady = @ - 1,
          !.stats.TotalUnacked = @ + 1,
          !.stats.ByScheduler[sched] =
              [Ready |-> @.Ready - 1, Unacked |-> @.Unacked + 1]]

\* waitForSchedulers under the lock: a channel is made for every requested
\* scheduler that has none
waitForSchedulers(s, schedulers) ==
    [s EXCEPT !.waiting =
        [sched \in DOMAIN s.waiting \cup schedulers |->
            IF Has(s.waiting, sched) THEN s.waiting[sched] ELSE 0]]

\* ---------------------------------------------------------------- ack, nack

\* nackReenqueueDelay with the delays of the first and of the later nacks
\* exchanged
nackReenqueueDelaySwapped(prevDequeues) ==
    IF prevDequeues <= 0 THEN 0
    ELSE IF prevDequeues = 1 THEN subsequentNackDelay
    ELSE (prevDequeues - 1) * initialNackDelay

\* nackReenqueueDelay that does not compound the delay of the later nacks
nackReenqueueDelayFlat(prevDequeues) ==
    IF prevDequeues <= 0 THEN 0
    ELSE IF prevDequeues = 1 THEN initialNackDelay
    ELSE subsequentNackDelay

\* EvalBroker.nackReenqueueDelay
nackReenqueueDelay(prevDequeues) ==
    IF prevDequeues <= 0 THEN 0
    ELSE IF prevDequeues = 1 THEN initialNackDelay
    ELSE (prevDequeues - 1) * subsequentNackDelay

\* dropRequeue that deletes nothing
dropRequeueKeeps(s, token) == s

\* the deferred delete(b.requeue, token) of Ack, the leading one of Nack
dropRequeue(s, token) == [s EXCEPT !.requeue = Del(s.requeue, token)]

\* the part of Ack after the timer was stopped
ackCleanup(s, evalID, token) ==
    LET ua == s.unack[evalID]
        dequeues == IF Has(s.evals, evalID) THEN s.evals[evalID] ELSE 0
        queue == IF dequeues > deliveryLimit THEN failedQueue
                 ELSE ua.Eval.Type
        s1 == [s EXCEPT !.stats.TotalUnacked = @ - 1]
    IN IF ~Has(s.stats.ByScheduler, queue)
       THEN \* bySched is nil: bySched.Unacked -= 1 panics
            [s1 EXCEPT !.panicked = TRUE]
       ELSE
         LET namespacedID == NamespacedID(ua.Eval)
             s2 == [s1 EXCEPT
                      !.stats.ByScheduler[queue].Unacked = @ - 1,
                      !.unack = Del(s.unack, evalID),
                      !.evals = Del(s.evals, evalID),
                      !.jobEvals = Del(s.jobEvals, namespacedID)]
             blk == IF Has(s2.blocked, namespacedID)
                    THEN s2.blocked[namespacedID] ELSE << >>
             s3 == IF Len(blk) # 0
                   THEN enqueueLocked(
                          [s2 EXCEPT
                             !.blocked = IF Len(blk) > 1
                                         THEN Put(@, namespacedID, heapPopRest(blk))
                                         ELSE Del(@, namespacedID),
                             !.stats.TotalBlocked = @ - 1],
                          heapPopElem(blk), heapPopElem(blk).Type)
                   ELSE s2
         IN IF Has(s3.requeue, token)
            THEN processEnqueue(s3, s3.requeue[token], NoToken)
            ELSE s3

\* EvalBroker.Ack: the broker afterwards and the error returned
Ack(s, evalID, token) ==
    IF ~Has(s.unack, evalID)
    THEN [s |-> dropRequeue(s, token), err |-> "Evaluation ID not found"]
    ELSE IF s.unack[evalID].Token # token
    THEN [s |-> dropRequeue(s, token), err |-> "Token does not match"]
    ELSE IF ~TimerActive(s, token)
    THEN [s |-> dropRequeue(s, token), err |-> "Ack'd after Nack timer expiration"]
    ELSE LET s1 == ackCleanup(TimerStop(s, token), evalID, token)
         IN [s |-> dropRequeue(s1, token),
             err |-> IF s1.panicked THEN "panic" ELSE "nil"]

\* nackReenqueue that diverts only once the count is beyond the limit
nackReenqueueBeyondLimit(s, eval, dequeues) ==
    LET e == [eval EXCEPT !.Wait = nackReenqueueDelay(dequeues)]
    IN IF dequeues > deliveryLimit THEN enqueueLocked(s, eval, failedQueue)
       ELSE IF e.Wait > 0 THEN processWaitingEnqueue(s, e)
       ELSE enqueueLocked(s, e, e.Type)

\* nackReenqueue that also clears the job's entry of jobEvals, as Ack does
nackReenqueueClearsJob(s, eval, dequeues) ==
    LET e == [eval EXCEPT !.Wait = nackReenqueueDelay(dequeues)]
        s1 == [s EXCEPT !.jobEvals = Del(@, NamespacedID(eval))]
    IN IF dequeues >= deliveryLimit THEN enqueueLocked(s1, eval, failedQueue)
       ELSE IF e.Wait > 0 THEN processWaitingEnqueue(s1, e)
       ELSE enqueueLocked(s1, e, e.Type)

\* nackReenqueue that puts the evaluation nowhere
nackReenqueueLoses(s, eval, dequeues) == s

\* the end of Nack: the failed queue at the delivery limit, else the wait
\* timer or the evaluation's own queue
nackReenqueue(s, eval, dequeues) ==
    LET e == [eval EXCEPT !.Wait = nackReenqueueDelay(dequeues)]
    IN IF dequeues >= deliveryLimit THEN enqueueLocked(s, eval, failedQueue)
       ELSE IF e.Wait > 0 THEN processWaitingEnqueue(s, e)
       ELSE enqueueLocked(s, e, e.Type)

\* EvalBroker.Nack: the broker afterwards and the error returned
Nack(s, evalID, token) ==
    LET s0 == dropRequeue(s, token)
    IN IF ~Has(s0.unack, evalID)
       THEN [s |-> s0, err |-> "Evaluation ID not found"]
       ELSE IF s0.unack[evalID].Token # token
       THEN [s |-> s0, err |-> "Token does not match"]
       ELSE
         LET ua == s0.unack[evalID]
             s1 == [TimerStop(s0, token) EXCEPT
                      !.unack = Del(s0.unack, evalID),
                      !.stats.TotalUnacked = @ - 1]
         IN IF ~Has(s1.stats.ByScheduler, ua.Eval.Type)
            THEN [s |-> [s1 EXCEPT !.panicked = TRUE], err |-> "panic"]
            ELSE
              LET s2 == [s1 EXCEPT
                           !.stats.ByScheduler[ua.Eval.Type].Unacked = @ - 1]
                  dequeues == IF Has(s2.evals, evalID) THEN s2.evals[evalID] ELSE 0
              IN [s |-> nackReenqueue(s2, ua.Eval, dequeues), err |-> "nil"]

\* OutstandingReset without the comparison of the tokens
OutstandingResetAnyToken(s, evalID, token) ==
    IF ~Has(s.unack, evalID) THEN [s |-> s, err |-> "ErrNotOutstanding"]
    ELSE LET held == s.unack[evalID].Token
         IN [s |-> TimerReset(s, held),
             err |-> IF TimerActive(s, held) THEN "nil" ELSE "ErrNackTimeoutReached"]

\* EvalBroker.OutstandingReset
OutstandingReset(s, evalID, token) ==
    IF ~Has(s.unack, evalID) THEN [s |-> s, err |-> "ErrNotOutstanding"]
    ELSE IF s.unack[evalID].Token # token THEN [s |-> s, err |-> "ErrTokenMismatch"]
    ELSE [s |-> TimerReset(s, token),
          err |-> IF TimerActive(s, token) THEN "nil" ELSE "ErrNackTimeoutReached"]

\* EvalBroker.PauseNackTimeout
PauseNackTimeout(s, evalID, token) ==
    IF ~Has(s.unack, evalID) THEN [s |-> s, err |-> "ErrNotOutstanding"]
    ELSE IF s.unack[evalID].Token # token THEN [s |-> s, err |-> "ErrTokenMismatch"]
    ELSE [s |-> TimerStop(s, token),
          err |-> IF TimerActive(s, token) THEN "nil" ELSE "ErrNackTimeoutReached"]

\* EvalBroker.ResumeNackTimeout
ResumeNackTimeout(s, evalID, token) ==
    IF ~Has(s.unack, evalID) THEN [s |-> s, err |-> "ErrNotOutstanding"]
    ELSE IF s.unack[evalID].Token # token THEN [s |-> s, err |-> "ErrTokenMismatch"]
    ELSE [s |-> TimerReset(s, token), err |-> "nil"]

\* ---------------------------------------------------------------- flush

\* EvalBroker.flush: requeue is the one table it does not reset
flush(s) ==
    LET held == {s.unack[id].Token : id \in DOMAIN s.unack}
        \* wait.Stop() comes too late for a timer that has fired
        fired == {id \in DOMAIN s.timeWait : s.timeWait[id].Fired}
    IN [s EXCEPT
          !.waiting = EmptyMap,
          !.nackTimers = [t \in DOMAIN s.nackTimers |->
                             IF t \in held
                             THEN [s.nackTimers[t] EXCEPT !.Active = FALSE]
                             ELSE s.nackTimers[t]],
          !.orphanTimers = @ (+) SetToBag({s.timeWait[id] : id \in fired}),
          !.delayedEvalsUpdateCh = 0,
          !.stats = NewStats,
          !.evals = EmptyMap,
          !.jobEvals = EmptyMap,
          !.blocked = EmptyMap,
          !.ready = EmptyMap,
          !.unack = EmptyMap,
          !.timeWait = EmptyMap,
          !.delayHeap = {}]

\* BrokerStats as EvalBroker.Stats copies it
Stats(s) == s.stats

\* ---------------------------------------------------------------- inputs

\* the scheduler lists the sub-schedulers dequeue with: one type of the
\* pool, all of them, or the failed queue
SchedulerSets ==
    LET types == {e.Type : e \in pool}
    IN {{type} : type \in types} \cup {types} \cup {{failedQueue}}

\* the scheduler list of the sub-schedulers that serve every type of the
\* pool and leave the failed queue to others
TypeSets == {{e.Type : e \in pool}}

\* the ids of the evaluations the producers submit
IDs == {e.ID : e \in pool}

\* the tokens generated so far
Tokens == 1 .. (nextToken - 1)

\* the tokens of the deliveries that are outstanding
Outstanding == {unack[id].Token : id \in DOMAIN unack}

\* the maps EnqueueAll is called with, as the order range visits them: one
\* evaluation with any token or none, or two evaluations that both carry no
\* token or the token of an outstanding delivery
Batches ==
    {<<[eval |-> e, token |-> t]>> : e \in pool, t \in {NoToken} \cup Tokens}
    \cup {<<[eval |-> p[1], token |-> t], [eval |-> p[2], token |-> t]>> :
             p \in {q \in pool \X pool : q[1].ID # q[2].ID},
             t \in {NoToken} \cup Outstanding}

\* no call has found the broker disabled since it was last switched
NoCall == [op |-> "", err |-> ""]

\* last after a call of op that returned err: calls are recorded while the
\* broker is disabled
Ret(op, err) == IF enabled THEN NoCall ELSE [op |-> op, err |-> err]

\* the clock is not followed beyond the latest deadline of the pool
Horizon ==
    LET deadlines == {e.WaitUntil : e \in pool} \cup {1}
    IN CHOOSE d \in deadlines : \A o \in deadlines : o <= d

\* the sub-schedulers whose Dequeue calls are followed step by step
Callers == {"d1", "d2"}

\* a caller that is in no call of Dequeue and has made none. In a call, pc is
\* "scan" before scanForSchedulers, "wait" between the scan that found
\* nothing and waitForSchedulers, "blocked" in the select of
\* waitForSchedulers; watch holds the schedulers whose goroutine still waits
\* for its waitCh, closed says that flush closed a waitCh a goroutine waits
\* for, leftover counts by scheduler the goroutines of calls of
\* waitForSchedulers that have returned
NoDequeue == [pc |-> "idle", schedulers |-> {}, readyCh |-> 0, watch |-> {},
              closed |-> FALSE, leftover |-> EmptyBag, eval |-> NilEval,
              err |-> ""]

\* flush closes every channel of b.waiting: a goroutine that waits for one
\* of them receives, and the goroutines left over have nothing to take
closeWaiting(dq) ==
    [dq EXCEPT !.closed = @ \/ dq.watch # {}, !.watch = {},
               !.leftover = EmptyBag]

\* no call of Dequeue with a timeout is between its scan and its wait, and no
\* goroutine of such a call waits. calls holds the scheduler lists of the
\* calls that have scanned, found nothing and not yet entered
\* waitForSchedulers; goroutines counts by scheduler the goroutines such
\* calls have started that have not left their select. The timeout of the
\* call may fire at any time, so the call is not followed further: its
\* return closes doneCh, and a call that is woken scans like a new call
NoWaiters == [calls |-> EmptyBag, goroutines |-> EmptyBag]

\* ---------------------------------------------------------------- lifecycle

\* a runDelayedEvalsWatcher goroutine at the top of its loop, no timer yet;
\* updateCh is the slot of its channel once flush has replaced the broker's
NewWatcher == [pc |-> "loop", eval |-> NilEval, timerChannel |-> FALSE,
               Active |-> FALSE, Deadline |-> ZeroTime, Tick |-> 0,
               updateCh |-> 0]

\* the state after NewEvalBroker(timeout, initial, subsequent, limit)
NewEvalBroker(cfg, evaluations) ==
    /\ deliveryLimit = cfg.deliveryLimit
    /\ initialNackDelay = cfg.initialNackDelay
    /\ subsequentNackDelay = cfg.subsequentNackDelay
    /\ pool = evaluations
    /\ enabled = FALSE
    /\ stats = NewStats
    /\ evals = EmptyMap
    /\ jobEvals = EmptyMap
    /\ blocked = EmptyMap
    /\ ready = EmptyMap
    /\ unack = EmptyMap
    /\ waiting = EmptyMap
    /\ requeue = EmptyMap
    /\ timeWait = EmptyMap
    /\ delayHeap = {}
    /\ delayedEvalsUpdateCh = 0
    /\ nackTimers = EmptyMap
    /\ orphanTimers = EmptyBag
    /\ watchers = EmptyMap
    /\ panicked = FALSE
    /\ nextToken = 1
    /\ epoch = 0
    /\ now = 1
    /\ last = NoCall
    /\ dequeuers = [d \in Callers |-> NoDequeue]
    /\ waiters = NoWaiters

\* EvalBroker.SetEnabled
SetEnabled(v) ==
    /\ ~panicked
    /\ (~enabled /\ v) => epoch < MaxEpochs
    /\ LET s1 == [B EXCEPT !.enabled = v]
       IN Commit(IF ~v THEN flush(s1) ELSE s1)
    /\ epoch' = IF ~enabled /\ v THEN epoch + 1 ELSE epoch
    /\ watchers' =
         IF ~enabled /\ v THEN Put(watchers, epoch + 1, NewWatcher)
         ELSE IF enabled /\ ~v
         THEN \* the watcher keeps the channel that flush replaces
              [w \in DOMAIN watchers |->
                  IF w = epoch
                  THEN [watchers[w] EXCEPT !.updateCh = delayedEvalsUpdateCh]
                  ELSE watchers[w]]
         ELSE watchers
    /\ dequeuers' = IF ~v THEN [d \in DOMAIN dequeuers |-> closeWaiting(dequeuers[d])]
                     ELSE dequeuers
    \* the goroutines receive from the channels that flush closes
    /\ waiters' = IF ~v THEN [waiters EXCEPT !.goroutines = EmptyBag] ELSE waiters
    /\ last' = NoCall
    /\ UNCHANGED <<cfgVars, nextToken, now>>

\* ---------------------------------------------------------------- producers

\* EvalBroker.Enqueue
Enqueue(eval) ==
    /\ ~panicked
    /\ Commit(processEnqueue(B, eval, NoToken))
    /\ last' = Ret("Enqueue", "nil")
    /\ UNCHANGED <<cfgVars, dequeuers, waiters, watchers, nextToken, epoch, now>>

\* the loop of EnqueueAll over the batch
RECURSIVE processAll(_, _)
processAll(s, batch) ==
    IF batch = << >> THEN s
    ELSE processAll(processEnqueue(s, Head(batch).eval, Head(batch).token),
                    Tail(batch))

\* EvalBroker.EnqueueAll
EnqueueAll(batch) ==
    /\ ~panicked
    /\ Commit(processAll(B, batch))
    /\ last' = Ret("EnqueueAll", "nil")
    /\ UNCHANGED <<cfgVars, dequeuers, waiters, watchers, nextToken, epoch, now>>

\* ---------------------------------------------------------------- consumers

\* what scanForSchedulers returns when it finds the broker as s: an error, or
\* nothing, or the evaluation popped from sched under the token
scanForSchedulers(s, schedulers, sched, token) ==
    IF ~s.enabled
    THEN [s |-> s, eval |-> NilEval, token |-> NoToken, err |-> "eval broker disabled"]
    ELSE IF eligibleSched(s, schedulers) = {}
    THEN [s |-> s, eval |-> NilEval, token |-> NoToken, err |-> "nil"]
    ELSE [s |-> dequeueForSched(s, sched, token),
          eval |-> heapPopElem(s.ready[sched]), token |-> token, err |-> "nil"]

\* how many calls with a timeout are between scan and wait, and how many
\* goroutines of such calls are in their select
Waiters == BagCardinality(waiters.calls) + BagCardinality(waiters.goroutines)

\* EvalBroker.Dequeue(schedulers, timeout) with timeout > 0 through its
\* scan: the call returns the error or the evaluation, or has found nothing
\* and goes on to waitForSchedulers
Dequeue(schedulers) ==
    /\ ~panicked
    /\ IF ~enabled
       THEN /\ Commit(scanForSchedulers(B, schedulers, "", NoToken).s)
            /\ UNCHANGED <<nextToken, waiters>>
       ELSE IF eligibleSched(B, schedulers) = {}
       THEN /\ Waiters < MaxWaiters
            /\ Commit(scanForSchedulers(B, schedulers, "", NoToken).s)
            /\ waiters' = [waiters EXCEPT !.calls = @ (+) SetToBag({schedulers})]
            /\ UNCHANGED nextToken
       ELSE /\ nextToken <= MaxTokens
            \* rand.Intn picks among the eligible schedulers
            /\ \E sched \in eligibleSched(B, schedulers) :
                  Commit(scanForSchedulers(B, schedulers, sched, nextToken).s)
            /\ nextToken' = nextToken + 1
            /\ UNCHANGED waiters
    /\ last' = Ret("Dequeue", scanForSchedulers(B, schedulers, "", NoToken).err)
    /\ UNCHANGED <<cfgVars, dequeuers, watchers, epoch, now>>

\* waitForSchedulers under the lock, for a call that scanned and found
\* nothing: a channel is made for every requested scheduler that has none
\* and a goroutine is started for each of them
WaitRegister(schedulers) ==
    /\ ~panicked
    /\ BagIn(schedulers, waiters.calls)
    /\ Commit(waitForSchedulers(B, schedulers))
    /\ waiters' = [waiters EXCEPT !.calls = @ (-) SetToBag({schedulers}),
                                  !.goroutines = @ (+) SetToBag(schedulers)]
    /\ UNCHANGED <<cfgVars, dequeuers, watchers, nextToken, epoch, now, last>>

\* a goroutine takes case <-waitCh: the signal is gone from the channel. Its
\* call is woken and scans again, as a new call does, unless it has returned
WaitTake(sched) ==
    /\ ~panicked
    /\ BagIn(sched, waiters.goroutines)
    /\ Has(waiting, sched) /\ waiting[sched] = 1
    /\ waiting' = [waiting EXCEPT ![sched] = 0]
    /\ waiters' = [waiters EXCEPT !.goroutines = @ (-) SetToBag({sched})]
    /\ UNCHANGED <<cfgVars, dequeuers, enabled, stats, evals, jobEvals, blocked,
                   ready, unack, requeue, timeWait, delayHeap,
                   delayedEvalsUpdateCh, nackTimers, orphanTimers, panicked,
                   watchers, nextToken, epoch, now, last>>

\* a goroutine takes case <-doneCh: its call has returned, woken by another
\* of its goroutines or by its timeout
WaitDone(sched) ==
    /\ ~panicked
    /\ BagIn(sched, waiters.goroutines)
    /\ waiters' = [waiters EXCEPT !.goroutines = @ (-) SetToBag({sched})]
    /\ UNCHANGED <<cfgVars, dequeuers, brokerVars, watchers, nextToken, epoch,
                   now, last>>

\* the steps of the calls of Dequeue that found nothing and of their
\* goroutines
WaitNext ==
    \/ \E schedulers \in BagToSet(waiters.calls) : WaitRegister(schedulers)
    \/ \E sched \in BagToSet(waiters.goroutines) : WaitTake(sched)
    \/ \E sched \in BagToSet(waiters.goroutines) : WaitDone(sched)

\* ---------------------------------------------------------------- Dequeue, step by step

\* caller d calls Dequeue(schedulers, 0): no timeout channel is set up
DequeueCall(d, schedulers) ==
    /\ ~panicked
    /\ dequeuers[d].pc = "idle"
    /\ dequeuers' = [dequeuers EXCEPT ![d].pc = "scan",
                                      ![d].schedulers = schedulers,
                                      ![d].eval = NilEval,
                                      ![d].err = ""]
    /\ UNCHANGED <<cfgVars, waiters, brokerVars, watchers, nextToken, epoch, now, last>>

\* SCAN: scanForSchedulers under the lock; the call returns on an error or
\* with an evaluation, and goes on to waitForSchedulers with neither
DequeueScan(d) ==
    /\ ~panicked
    /\ dequeuers[d].pc = "scan"
    /\ LET schedulers == dequeuers[d].schedulers
       IN IF ~enabled \/ eligibleSched(B, schedulers) = {}
          THEN LET r == scanForSchedulers(B, schedulers, "", NoToken)
               IN /\ Commit(r.s)
                  /\ dequeuers' =
                       [dequeuers EXCEPT
                          ![d].pc = IF r.err = "nil" THEN "wait" ELSE "idle",
                          ![d].err = IF r.err = "nil" THEN "" ELSE r.err]
                  /\ UNCHANGED nextToken
          ELSE /\ nextToken <= MaxTokens
               /\ \E sched \in eligibleSched(B, schedulers) :
                     LET r == scanForSchedulers(B, schedulers, sched, nextToken)
                     IN /\ Commit(r.s)
                        /\ dequeuers' = [dequeuers EXCEPT ![d].pc = "idle",
                                                          ![d].eval = r.eval,
                                                          ![d].err = r.err]
               /\ nextToken' = nextToken + 1
    /\ UNCHANGED <<cfgVars, waiters, watchers, epoch, now, last>>

\* waitForSchedulers under the lock: a channel is made for every requested
\* scheduler that has none and a goroutine is started for each of them
DequeueWait(d) ==
    /\ ~panicked
    /\ dequeuers[d].pc = "wait"
    /\ Commit(waitForSchedulers(B, dequeuers[d].schedulers))
    /\ dequeuers' = [dequeuers EXCEPT ![d].pc = "blocked",
                                      ![d].readyCh = 0,
                                      ![d].closed = FALSE,
                                      ![d].watch = dequeuers[d].schedulers]
    /\ UNCHANGED <<cfgVars, waiters, watchers, nextToken, epoch, now, last>>

\* the goroutine of d for sched takes case <-waitCh and sends on readyCh
DequeueWatch(d, sched) ==
    /\ ~panicked
    /\ sched \in dequeuers[d].watch
    /\ Has(waiting, sched) /\ waiting[sched] = 1
    /\ waiting' = [waiting EXCEPT ![sched] = 0]
    /\ dequeuers' = [dequeuers EXCEPT ![d].readyCh = 1,
                                      ![d].watch = @ \ {sched}]
    /\ UNCHANGED <<cfgVars, waiters, enabled, stats, evals, jobEvals, blocked,
                   ready, unack, requeue, timeWait, delayHeap,
                   delayedEvalsUpdateCh, nackTimers, orphanTimers, panicked,
                   watchers, nextToken, epoch, now, last>>

\* the select of waitForSchedulers takes case <-readyCh, sent by a goroutine
\* that took a signal or whose waitCh was closed: doneCh is closed and the
\* call scans again
DequeueWake(d) ==
    /\ ~panicked
    /\ dequeuers[d].pc = "blocked"
    /\ dequeuers[d].readyCh = 1 \/ dequeuers[d].closed
    /\ dequeuers' = [dequeuers EXCEPT ![d].pc = "scan",
                                      ![d].readyCh = 0,
                                      ![d].closed = FALSE,
                                      ![d].leftover = @ (+) SetToBag(dequeuers[d].watch),
                                      ![d].watch = {}]
    /\ UNCHANGED <<cfgVars, waiters, brokerVars, watchers, nextToken, epoch, now, last>>

\* a goroutine of a call of waitForSchedulers that has returned takes
\* case <-doneCh
LeftoverDone(d, sched) ==
    /\ ~panicked
    /\ BagIn(sched, dequeuers[d].leftover)
    /\ dequeuers' = [dequeuers EXCEPT ![d].leftover = @ (-) SetToBag({sched})]
    /\ UNCHANGED <<cfgVars, waiters, brokerVars, watchers, nextToken, epoch, now, last>>

\* such a goroutine finds both cases of its select ready and takes
\* case <-waitCh: its send on readyCh reaches nobody
LeftoverTake(d, sched) ==
    /\ ~panicked
    /\ BagIn(sched, dequeuers[d].leftover)
    /\ Has(waiting, sched) /\ waiting[sched] = 1
    /\ waiting' = [waiting EXCEPT ![sched] = 0]
    /\ dequeuers' = [dequeuers EXCEPT ![d].leftover = @ (-) SetToBag({sched})]
    /\ UNCHANGED <<cfgVars, waiters, enabled, stats, evals, jobEvals, blocked,
                   ready, unack, requeue, timeWait, delayHeap,
                   delayedEvalsUpdateCh, nackTimers, orphanTimers, panicked,
                   watchers, nextToken, epoch, now, last>>

\* the steps of the call of Dequeue that caller d is in
DequeueSteps(d) ==
    \/ DequeueScan(d)
    \/ DequeueWait(d)
    \/ \E sched \in dequeuers[d].watch : DequeueWatch(d, sched)
    \/ DequeueWake(d)
    \/ \E sched \in BagToSet(dequeuers[d].leftover) : LeftoverDone(d, sched)
    \/ \E sched \in BagToSet(dequeuers[d].leftover) : LeftoverTake(d, sched)

\* a call of op, one of Ack, Nack, OutstandingReset, PauseNackTimeout and
\* ResumeNackTimeout, that left the broker as r.s and returned r.err
Returned(op, r) ==
    /\ ~panicked
    /\ Commit(r.s)
    /\ last' = Ret(op, r.err)
    /\ UNCHANGED <<cfgVars, dequeuers, waiters, watchers, nextToken, epoch, now>>

DoAck(evalID, token) == Returned("Ack", Ack(B, evalID, token))

DoNack(evalID, token) == Returned("Nack", Nack(B, evalID, token))

DoOutstandingReset(evalID, token) ==
    Returned("OutstandingReset", OutstandingReset(B, evalID, token))

DoPauseNackTimeout(evalID, token) ==
    Returned("PauseNackTimeout", PauseNackTimeout(B, evalID, token))

DoResumeNackTimeout(evalID, token) ==
    Returned("ResumeNackTimeout", ResumeNackTimeout(B, evalID, token))

\* ---------------------------------------------------------------- timers

\* the nack timer of token expires: its callback starts and waits for the lock
NackTimerExpire(token) ==
    /\ ~panicked
    /\ nackTimers[token].Active
    /\ nackTimers[token].Pending < MaxPending
    /\ nackTimers' = [nackTimers EXCEPT ![token].Active = FALSE,
                                        ![token].Fired = TRUE,
                                        ![token].Pending = @ + 1]
    /\ UNCHANGED <<cfgVars, dequeuers, waiters, enabled, stats, evals, jobEvals, blocked, ready,
                   unack, waiting, requeue, timeWait, delayHeap,
                   delayedEvalsUpdateCh, orphanTimers, panicked, watchers,
                   nextToken, epoch, now, last>>

\* the callback of the nack timer: b.Nack(eval.ID, token)
NackTimerCallback(token) ==
    /\ ~panicked
    /\ nackTimers[token].Pending > 0
    /\ Commit(Nack([B EXCEPT !.nackTimers[token].Pending = @ - 1],
                   nackTimers[token].ID, token).s)
    /\ UNCHANGED <<cfgVars, dequeuers, waiters, watchers, nextToken, epoch, now, last>>

\* the wait timer that timeWait[id] holds expires
WaitTimerExpire(id) ==
    /\ ~panicked
    /\ ~timeWait[id].Fired
    /\ timeWait' = [timeWait EXCEPT ![id].Fired = TRUE]
    /\ UNCHANGED <<cfgVars, dequeuers, waiters, enabled, stats, evals, jobEvals, blocked, ready,
                   unack, waiting, requeue, delayHeap, delayedEvalsUpdateCh,
                   nackTimers, orphanTimers, panicked, watchers, nextToken,
                   epoch, now, last>>

\* the callback of the wait timer that timeWait[id] holds
WaitTimerCallback(id) ==
    /\ ~panicked
    /\ timeWait[id].Fired
    /\ Commit(enqueueWaiting(B, timeWait[id].Eval))
    /\ UNCHANGED <<cfgVars, dequeuers, waiters, watchers, nextToken, epoch, now, last>>

\* a wait timer that timeWait does not hold expires
OrphanTimerExpire(timer) ==
    /\ ~panicked
    /\ ~timer.Fired
    /\ orphanTimers' = (orphanTimers (-) SetToBag({timer}))
                          (+) SetToBag({[timer EXCEPT !.Fired = TRUE]})
    /\ UNCHANGED <<cfgVars, dequeuers, waiters, enabled, stats, evals, jobEvals, blocked, ready,
                   unack, waiting, requeue, timeWait, delayHeap,
                   delayedEvalsUpdateCh, nackTimers, panicked, watchers,
                   nextToken, epoch, now, last>>

\* the callback of a wait timer that timeWait does not hold: the handle it
\* deletes from timeWait is another timer's, which runs on
OrphanTimerCallback(timer) ==
    /\ ~panicked
    /\ timer.Fired
    /\ LET id == timer.Eval.ID
           rest == orphanTimers (-) SetToBag({timer})
           s1 == [B EXCEPT !.orphanTimers =
                     IF Has(timeWait, id)
                     THEN rest (+) SetToBag({timeWait[id]}) ELSE rest]
       IN Commit(enqueueWaiting(s1, timer.Eval))
    /\ UNCHANGED <<cfgVars, dequeuers, waiters, watchers, nextToken, epoch, now, last>>

\* the wall clock advances
Tick ==
    /\ ~panicked
    /\ now < Horizon
    /\ now' = now + 1
    /\ UNCHANGED <<cfgVars, dequeuers, waiters, brokerVars, watchers, nextToken, epoch, last>>

\* ---------------------------------------------------------------- delayed evals

\* the context of watcher w was cancelled: flush ran after it was started
Cancelled(w) == w < epoch \/ ~enabled

\* the slot of the update channel that watcher w was started with
UpdateSlot(w) == IF Cancelled(w) THEN watchers[w].updateCh ELSE delayedEvalsUpdateCh

\* delayHeap.Peek: a node with the earliest WaitUntil
DelayHeapPeek == {e \in delayHeap : \A o \in delayHeap : e.WaitUntil <= o.WaitUntil}

\* delayHeap.Remove: the node with the evaluation's id and namespace
DelayHeapRemove(heap, eval) ==
    {e \in heap : ~(e.ID = eval.ID /\ e.Namespace = eval.Namespace)}

\* runDelayedEvalsWatcher from the top of its loop to its select:
\* nextDelayedEval, then the timer is set to the deadline it returned
WatcherNext(w) ==
    /\ ~panicked
    /\ watchers[w].pc = "loop"
    /\ IF delayHeap = {}
       THEN watchers' = [watchers EXCEPT ![w].pc = "select",
                                         ![w].eval = NilEval,
                                         ![w].timerChannel = FALSE]
       ELSE \E head \in DelayHeapPeek :
              watchers' = [watchers EXCEPT ![w].pc = "select",
                                           ![w].eval = head,
                                           ![w].timerChannel = TRUE,
                                           ![w].Active = TRUE,
                                           ![w].Deadline = head.WaitUntil]
    /\ UNCHANGED <<cfgVars, dequeuers, waiters, brokerVars, nextToken, epoch, now, last>>

\* the watcher's timer expires: a tick is put in its 1-slot channel
WatcherTimerExpire(w) ==
    /\ ~panicked
    /\ watchers[w].Active
    /\ now >= watchers[w].Deadline
    /\ watchers' = [watchers EXCEPT ![w].Active = FALSE, ![w].Tick = 1]
    /\ UNCHANGED <<cfgVars, dequeuers, waiters, brokerVars, nextToken, epoch, now, last>>

\* select takes case <-ctx.Done(): the goroutine returns
WatcherDone(w) ==
    /\ ~panicked
    /\ watchers[w].pc = "select"
    /\ Cancelled(w)
    /\ watchers' = Del(watchers, w)
    /\ UNCHANGED <<cfgVars, dequeuers, waiters, brokerVars, nextToken, epoch, now, last>>

\* select takes case <-timerChannel: the goroutine goes for the lock
WatcherTimer(w) ==
    /\ ~panicked
    /\ watchers[w].pc = "select"
    /\ watchers[w].timerChannel
    /\ watchers[w].Tick = 1
    /\ watchers' = [watchers EXCEPT ![w].pc = "lock", ![w].Tick = 0]
    /\ UNCHANGED <<cfgVars, dequeuers, waiters, brokerVars, nextToken, epoch, now, last>>

\* select takes case <-updateCh: continue
WatcherUpdate(w) ==
    /\ ~panicked
    /\ watchers[w].pc = "select"
    /\ UpdateSlot(w) = 1
    /\ watchers' = [watchers EXCEPT ![w].pc = "loop", ![w].updateCh = 0]
    /\ delayedEvalsUpdateCh' = IF Cancelled(w) THEN delayedEvalsUpdateCh ELSE 0
    /\ UNCHANGED <<cfgVars, dequeuers, waiters, enabled, stats, evals, jobEvals, blocked, ready,
                   unack, waiting, requeue, timeWait, delayHeap, nackTimers,
                   orphanTimers, panicked, nextToken, epoch, now, last>>

\* the timer case under the lock: remove from the heap and enqueue
WatcherEnqueue(w) ==
    /\ ~panicked
    /\ watchers[w].pc = "lock"
    /\ LET eval == watchers[w].eval
           s1 == [B EXCEPT !.delayHeap = DelayHeapRemove(@, eval),
                           !.stats.TotalWaiting = @ - 1]
       IN Commit(enqueueLocked(s1, eval, eval.Type))
    /\ watchers' = [watchers EXCEPT ![w].pc = "loop"]
    /\ UNCHANGED <<cfgVars, dequeuers, waiters, nextToken, epoch, now, last>>

\* ---------------------------------------------------------------- specifications

\* the configuration of the back-off scenario: limit 2, delays 10ms and 20ms
Scenario == [deliveryLimit |-> 2, initialNackDelay |-> 10, subsequentNackDelay |-> 20]

\* the steps of the nack timers and the wait timers
TimerNext ==
    \/ \E token \in DOMAIN nackTimers : NackTimerExpire(token)
    \/ \E token \in DOMAIN nackTimers : NackTimerCallback(token)
    \/ \E id \in DOMAIN timeWait : WaitTimerExpire(id)
    \/ \E id \in DOMAIN timeWait : WaitTimerCallback(id)

\* the steps of the delayed-evals watcher and of the clock it reads
WatcherSteps ==
    \/ \E w \in DOMAIN watchers : WatcherNext(w)
    \/ \E w \in DOMAIN watchers : WatcherTimerExpire(w)
    \/ \E w \in DOMAIN watchers : WatcherTimer(w)
    \/ \E w \in DOMAIN watchers : WatcherUpdate(w)
    \/ \E w \in DOMAIN watchers : WatcherEnqueue(w)
    \/ Tick

\* the calls that enqueue, dequeue and resolve deliveries
CallNext ==
    \/ \E eval \in pool : Enqueue(eval)
    \/ \E batch \in Batches : EnqueueAll(batch)
    \/ \E schedulers \in SchedulerSets : Dequeue(schedulers)
    \/ WaitNext
    \/ \E evalID \in IDs, token \in Tokens : DoAck(evalID, token)
    \/ \E evalID \in IDs, token \in Tokens : DoNack(evalID, token)

\* the calls of a period in which no sub-scheduler serves the failed queue:
\* an evaluation that reaches it stays there
TypeCallNext ==
    \/ \E eval \in pool : Enqueue(eval)
    \/ \E batch \in Batches : EnqueueAll(batch)
    \/ \E schedulers \in TypeSets : Dequeue(schedulers)
    \/ WaitNext
    \/ \E evalID \in IDs, token \in Tokens : DoAck(evalID, token)
    \/ \E evalID \in IDs, token \in Tokens : DoNack(evalID, token)

\* the calls that act on the nack timer of a delivery
NackTimeoutNext ==
    \/ \E evalID \in IDs, token \in Tokens : DoOutstandingReset(evalID, token)
    \/ \E evalID \in IDs, token \in Tokens : DoPauseNackTimeout(evalID, token)
    \/ \E evalID \in IDs, token \in Tokens : DoResumeNackTimeout(evalID, token)

\* the evaluation the producers submit while the broker is enabled and
\* disabled in turn
Pools == {
    { Eval("e1", "ns1", "j1", "A", 50, 1, 0, 0) }
}

Init == \E evaluations \in Pools : NewEvalBroker(Scenario, evaluations)

\* no evaluation of Pools has a deadline: the watchers find the delay heap
\* empty until they are cancelled
Next ==
    \/ \E v \in BOOLEAN : SetEnabled(v)
    \/ CallNext
    \/ TimerNext
    \/ \E timer \in BagToSet(orphanTimers) : OrphanTimerExpire(timer)
    \/ \E timer \in BagToSet(orphanTimers) : OrphanTimerCallback(timer)
    \/ \E w \in DOMAIN watchers : WatcherNext(w)
    \/ \E w \in DOMAIN watchers : WatcherDone(w)

\* the broker through its whole life: enabled, flushed, enabled again
Spec == Init /\ [][Next]_vars

\* the sets of evaluations the producers draw from in one enabled period
EnabledPools == {
    \* two evaluations of one job and one of another
    { Eval("e1", "ns1", "j1", "A", 10, 1, 0, 0),
      Eval("e2", "ns1", "j1", "A", 50, 2, 0, 0),
      Eval("e3", "ns1", "j2", "B", 30, 3, 0, 0) },
    \* two evaluations of one job, one with a wait and one with a deadline
    { Eval("e1", "ns1", "j1", "A", 50, 1, 5, 0),
      Eval("e2", "ns1", "j1", "A", 50, 2, 0, 2) }
}

InitEnabled == \E evaluations \in EnabledPools : NewEvalBroker(Scenario, evaluations)

NextEnabled ==
    \/ SetEnabled(TRUE)
    \/ TypeCallNext
    \/ TimerNext
    \/ WatcherSteps

\* the broker from its construction through one enabled period, never
\* flushed: Enqueue, EnqueueAll, Dequeue, Ack, Nack and the timers
SpecEnabled == InitEnabled /\ [][NextEnabled]_vars

\* two evaluations of one job: the second is blocked behind the first
BlockedPools == {
    { Eval("e1", "ns1", "j1", "A", 50, 1, 0, 0),
      Eval("e2", "ns1", "j1", "A", 50, 2, 0, 0) },
    { Eval("e1", "ns1", "j1", "A", 50, 1, 5, 0),
      Eval("e2", "ns1", "j1", "A", 50, 2, 0, 2) }
}

InitBlocked == \E evaluations \in BlockedPools : NewEvalBroker(Scenario, evaluations)

\* one enabled period of a job with a representative and a successor
SpecBlocked == InitBlocked /\ [][NextEnabled]_vars

\* evaluations of pairwise distinct jobs for the scan over the ready queues
ScanPools == {
    \* two classes: the last element of A's heap is not its head
    { Eval("e1", "ns1", "j1", "A", 10, 1, 0, 0),
      Eval("e2", "ns1", "j2", "A", 50, 2, 0, 0),
      Eval("e3", "ns1", "j3", "B", 30, 3, 0, 0) },
    \* one class, the priorities 10, 50, 30 of three job ids
    { Eval("e1", "ns1", "j1", "A", 10, 1, 0, 0),
      Eval("e2", "ns1", "j2", "A", 50, 2, 0, 0),
      Eval("e3", "ns1", "j3", "A", 30, 3, 0, 0) },
    \* one class, two jobs of different namespaces with one job id, and two
    \* evaluations of equal priority
    { Eval("e1", "ns1", "j1", "A", 10, 1, 0, 0),
      Eval("e2", "ns2", "j1", "A", 50, 2, 0, 0),
      Eval("e3", "ns1", "j2", "A", 50, 3, 0, 0) }
}

InitScan == \E evaluations \in ScanPools : NewEvalBroker(Scenario, evaluations)

NextScan ==
    \/ SetEnabled(TRUE)
    \/ \E eval \in pool : Enqueue(eval)
    \/ \E schedulers \in SchedulerSets : Dequeue(schedulers)
    \/ WaitNext
    \/ \E evalID \in IDs, token \in Tokens : DoAck(evalID, token)

\* producers that enqueue and sub-schedulers that dequeue and ack
SpecScan == InitScan /\ [][NextScan]_vars

\* delivery limits 1, 2 and 3 with the delays of the back-off scenario
BackoffConfigs == {[Scenario EXCEPT !.deliveryLimit = limit] : limit \in {1, 2, 3}}

\* one evaluation, delivered and nacked until it fails
BackoffPools == {
    { Eval("e1", "ns1", "j1", "A", 50, 1, 0, 0) }
}

InitBackoff ==
    \E cfg \in BackoffConfigs, evaluations \in BackoffPools :
        NewEvalBroker(cfg, evaluations)

NextBackoff ==
    \/ SetEnabled(TRUE)
    \/ CallNext
    \/ TimerNext

\* one enabled period of deliveries, nacks and timers under each limit
SpecBackoff == InitBackoff /\ [][NextBackoff]_vars

\* an evaluation, a later version of it that a sub-scheduler submits with
\* the token of its delivery, and an evaluation of another job
RequeuePools == {
    { Eval("e1", "ns1", "j1", "A", 50, 1, 0, 0),
      Eval("e1", "ns1", "j1", "A", 50, 4, 0, 0),
      Eval("e2", "ns1", "j2", "A", 50, 2, 0, 0) }
}

InitRequeue == \E evaluations \in RequeuePools : NewEvalBroker(Scenario, evaluations)

NextRequeue ==
    \/ SetEnabled(TRUE)
    \/ TypeCallNext
    \/ \E evalID \in IDs, token \in Tokens : DoPauseNackTimeout(evalID, token)
    \/ \E evalID \in IDs, token \in Tokens : DoResumeNackTimeout(evalID, token)
    \/ TimerNext

\* one enabled period with requeues, pauses and resumes
SpecRequeue == InitRequeue /\ [][NextRequeue]_vars

\* the scheduler list caller d dequeues with: d1 is a worker for every class
\* of the pool, d2 a worker for the class of the pool's latest evaluation
CallerSchedulers(d) ==
    IF d = "d1" THEN {e.Type : e \in pool}
    ELSE {(CHOOSE e \in pool : \A o \in pool : o.CreateIndex <= e.CreateIndex).Type}

\* the calls of Dequeue that the callers make and the steps they take
DequeueNext ==
    \/ \E d \in Callers : DequeueCall(d, CallerSchedulers(d))
    \/ \E d \in Callers : DequeueSteps(d)

\* a call of Dequeue that can take a step takes one, and a timer that can
\* expire and a callback that waits for the lock get their turn
DequeueFairness ==
    /\ \A d \in Callers : WF_vars(DequeueSteps(d))
    /\ WF_vars(TimerNext)

\* two evaluations of two classes for the callers that are caught by a flush
DisablePools == {
    { Eval("e1", "ns1", "j1", "A", 50, 1, 0, 0),
      Eval("e2", "ns1", "j2", "B", 50, 2, 0, 0) }
}

InitDisable == \E evaluations \in DisablePools : NewEvalBroker(Scenario, evaluations)

NextDisable ==
    \/ \E v \in BOOLEAN : SetEnabled(v)
    \/ \E eval \in pool : Enqueue(eval)
    \/ DequeueNext
    \/ \E evalID \in IDs, token \in Tokens : DoAck(evalID, token)

\* callers in Dequeue while the broker is enabled and flushed; a call of
\* Dequeue that can take a step takes one
SpecDisable ==
    InitDisable /\ [][NextDisable]_vars
    /\ \A d \in Callers : WF_vars(DequeueSteps(d))

\* two evaluations of two jobs and two classes for two callers
WakePools == {
    { Eval("e1", "ns1", "j1", "A", 50, 1, 0, 0),
      Eval("e2", "ns1", "j2", "B", 50, 2, 0, 0) }
}

InitWake == \E evaluations \in WakePools : NewEvalBroker(Scenario, evaluations)

NextWake ==
    \/ SetEnabled(TRUE)
    \/ \E eval \in pool : Enqueue(eval)
    \/ DequeueNext
    \/ \E evalID \in IDs, token \in Tokens : DoAck(evalID, token)
    \/ TimerNext

\* one enabled period of producers and of callers that block in Dequeue
SpecWake == InitWake /\ [][NextWake]_vars /\ DequeueFairness

\* one evaluation whose deliveries are reset, paused, resumed, acked and
\* nacked while their nack timers run
TimeoutPools == {
    { Eval("e1", "ns1", "j1", "A", 50, 1, 0, 0) }
}

InitTimeout == \E evaluations \in TimeoutPools : NewEvalBroker(Scenario, evaluations)

NextTimeout ==
    \/ SetEnabled(TRUE)
    \/ CallNext
    \/ NackTimeoutNext
    \/ TimerNext

\* one enabled period with every call that acts on a delivery
SpecTimeout == InitTimeout /\ [][NextTimeout]_vars

\* the tokens uuid.Generate may return in one behaviour
AllTokens == 1 .. MaxTokens

\* no sub-scheduler nacks: a delivery is nacked by its timer or not at all
NextImplicit ==
    \/ SetEnabled(TRUE)
    \/ \E eval \in pool : Enqueue(eval)
    \/ \E schedulers \in SchedulerSets : Dequeue(schedulers)
    \/ WaitNext
    \/ \E evalID \in IDs, token \in Tokens : DoAck(evalID, token)
    \/ NackTimeoutNext
    \/ TimerNext

\* a nack timer that runs expires, and a callback that waits for the lock
\* gets it
TimerFairness ==
    \A token \in AllTokens :
        /\ WF_vars(Has(nackTimers, token) /\ NackTimerExpire(token))
        /\ WF_vars(Has(nackTimers, token) /\ NackTimerCallback(token))

\* one enabled period in which only the nack timers nack
SpecImplicit == InitTimeout /\ [][NextImplicit]_vars /\ TimerFairness

\* no evaluation of Pools has a deadline: the watchers wait on an empty
\* delay heap and are left where SetEnabled starts them
NextStale ==
    \/ \E v \in BOOLEAN : SetEnabled(v)
    \/ CallNext
    \/ NackTimeoutNext
    \/ TimerNext
    \/ \E timer \in BagToSet(orphanTimers) : OrphanTimerExpire(timer)
    \/ \E timer \in BagToSet(orphanTimers) : OrphanTimerCallback(timer)

\* the broker through its whole life with every call that carries a token
SpecStale == Init /\ [][NextStale]_vars

\* a limit that leaves room for three nacks before the failed queue, with
\* the delays of the scenario, with no initial delay and with no later delay
FormulaConfigs == {
    [deliveryLimit |-> 4, initialNackDelay |-> 10, subsequentNackDelay |-> 20],
    [deliveryLimit |-> 4, initialNackDelay |-> 0, subsequentNackDelay |-> 20],
    [deliveryLimit |-> 4, initialNackDelay |-> 10, subsequentNackDelay |-> 0]
}

InitFormula ==
    \E cfg \in FormulaConfigs, evaluations \in BackoffPools :
        NewEvalBroker(cfg, evaluations)

\* one enabled period of deliveries and nacks below the delivery limit
SpecFormula == InitFormula /\ [][NextBackoff]_vars

\* two evaluations of two jobs with deadlines: the earlier one is due while
\* the later one is not
DelayedPools == {
    { Eval("e1", "ns1", "j1", "A", 50, 1, 0, 2),
      Eval("e2", "ns1", "j2", "A", 50, 2, 0, 3) }
}

InitDelayed == \E evaluations \in DelayedPools : NewEvalBroker(Scenario, evaluations)

NextDelayed ==
    \/ SetEnabled(TRUE)
    \/ \E eval \in pool : Enqueue(eval)
    \/ \E schedulers \in SchedulerSets : Dequeue(schedulers)
    \/ WaitNext
    \/ WatcherSteps

\* the watcher takes the steps it can take, its timer expires when it is
\* due and the clock goes on
WatcherFairness ==
    /\ \A w \in 1 .. MaxEpochs :
          /\ WF_vars(Has(watchers, w) /\ WatcherNext(w))
          /\ WF_vars(Has(watchers, w) /\ WatcherTimerExpire(w))
          /\ WF_vars(Has(watchers, w) /\ (WatcherTimer(w) \/ WatcherUpdate(w)))
          /\ WF_vars(Has(watchers, w) /\ WatcherEnqueue(w))
    /\ WF_vars(Tick)

\* one enabled period of producers of delayed evaluations and the watcher
SpecDelayed == InitDelayed /\ [][NextDelayed]_vars /\ WatcherFairness

\* an evaluation that waits before it is admitted, or one with a deadline
FlushPools == {
    { Eval("e1", "ns1", "j1", "A", 50, 1, 5, 0) },
    { Eval("e2", "ns1", "j2", "A", 50, 2, 0, 2) }
}

InitFlush == \E evaluations \in FlushPools : NewEvalBroker(Scenario, evaluations)

NextFlush ==
    \/ \E v \in BOOLEAN : SetEnabled(v)
    \/ \E eval \in pool : Enqueue(eval)
    \/ \E schedulers \in TypeSets : Dequeue(schedulers)
    \/ WaitNext
    \/ TimerNext
    \/ \E timer \in BagToSet(orphanTimers) : OrphanTimerExpire(timer)
    \/ \E timer \in BagToSet(orphanTimers) : OrphanTimerCallback(timer)
    \/ WatcherSteps
    \/ \E w \in DOMAIN watchers : WatcherDone(w)

\* the broker enabled, flushed and enabled again while nack timers, wait
\* timers and the watcher's timer fire
SpecFlush == InitFlush /\ [][NextFlush]_vars

\* three evaluations of one job whose priorities run against their create
\* indexes, and two later versions of e1 that a sub-scheduler submits with
\* the token of its delivery: a plain one and one with a wait
HandoverPools == {
    { Eval("e1", "ns1", "j1", "A", 50, 1, 0, 0),
      Eval("e2", "ns1", "j1", "B", 10, 2, 0, 0),
      Eval("e3", "ns1", "j1", "A", 90, 3, 0, 0),
      Eval("e1", "ns1", "j1", "A", 50, 4, 0, 0),
      Eval("e1", "ns1", "j1", "A", 50, 5, 5, 0) }
}

\* the maps EnqueueAll is called with by a sub-scheduler that requeues the
\* evaluation it holds: one evaluation with the token of a delivery
RequeueBatches ==
    {<<[eval |-> e, token |-> t]>> : e \in pool, t \in Outstanding}

InitHandover == \E evaluations \in HandoverPools : NewEvalBroker(Scenario, evaluations)

NextHandover ==
    \/ SetEnabled(TRUE)
    \/ \E eval \in pool : Enqueue(eval)
    \/ \E batch \in RequeueBatches : EnqueueAll(batch)
    \/ \E schedulers \in SchedulerSets : Dequeue(schedulers)
    \/ WaitNext
    \/ \E evalID \in IDs, token \in Tokens : DoAck(evalID, token)

\* one enabled period of a job with a representative, blocked successors
\* and requeues that the Ack of the representative hands over to
SpecHandover == InitHandover /\ [][NextHandover]_vars

\* delivery limits 0, 1 and 2 with the delays of the back-off scenario
LimitConfigs == {[Scenario EXCEPT !.deliveryLimit = limit] : limit \in {0, 1, 2}}

InitLimits ==
    \E cfg \in LimitConfigs, evaluations \in BackoffPools :
        NewEvalBroker(cfg, evaluations)

\* one enabled period of deliveries, acks, nacks and timers under each
\* limit, the limit 0 among them
SpecLimits == InitLimits /\ [][NextBackoff]_vars

\* ---------------------------------------------------------------- properties

\* the places <<queue, position>> of the ready queues and what they hold
ReadyPlaces == UNION {{<<q, i>> : i \in 1 .. Len(ready[q])} : q \in DOMAIN ready}

ReadyAt(pl) == ready[pl[1]][pl[2]]

\* the places <<job key, position>> of the blocked queues and what they hold
BlockedPlaces == UNION {{<<k, i>> : i \in 1 .. Len(blocked[k])} : k \in DOMAIN blocked}

BlockedAt(pl) == blocked[pl[1]][pl[2]]

\* the job keys of the evaluations the producers submit
JobKeys == {NamespacedID(e) : e \in pool}

\* how many evaluations of job key K are ready or delivered
InFlight(K) ==
    Cardinality({pl \in ReadyPlaces : NamespacedID(ReadyAt(pl)) = K})
    + Cardinality({id \in DOMAIN unack : NamespacedID(unack[id].Eval) = K})

\* in how many places of the ready queues, the blocked queues, the wait
\* timers, the delay heap and the unack table the id is
Residences(id) ==
    Cardinality({pl \in ReadyPlaces : ReadyAt(pl).ID = id})
    + Cardinality({pl \in BlockedPlaces : BlockedAt(pl).ID = id})
    + Cardinality({x \in DOMAIN timeWait : x = id})
    + Cardinality({e \in delayHeap : e.ID = id})
    + Cardinality({x \in DOMAIN unack : x = id})

\* the id is in the ready queue of the class
InReady(id, class) ==
    Has(ready, class) /\ \E i \in 1 .. Len(ready[class]) : ready[class][i].ID = id

\* C1 (per-job serialization): while the broker is enabled, through Enqueue,
\* EnqueueAll, Dequeue, Ack, Nack and the timers, every job key has at most
\* one evaluation in the ready queues (the failed queue among them) and the
\* unack table together, and the other admitted evaluations of the key are in
\* the key's own blocked queue.
PerJobSerialization ==
    enabled =>
      /\ \A K \in JobKeys : InFlight(K) <= 1
      /\ \A pl \in BlockedPlaces : NamespacedID(BlockedAt(pl)) = pl[1]

\* C1 witness: after the Ack of e1, which carried a requeue of e1, e2 is the
\* job's one ready evaluation and e1 waits in the job's blocked queue
PerJobSerializationWitness ==
    /\ enabled
    /\ \E K \in DOMAIN blocked :
         /\ Len(blocked[K]) = 1
         /\ blocked[K][1].ID = "e1"
         /\ Has(jobEvals, K) /\ jobEvals[K] = "e2"
         /\ InFlight(K) = 1

\* C2 (partition): while the broker is enabled every id the attempt counter
\* evals tracks is in exactly one place of the ready queues, the blocked
\* queues, the wait timers, the delay heap and the unack table, and every id
\* in one of them has an entry in evals.
Partition ==
    enabled =>
      /\ \A id \in DOMAIN evals : Residences(id) = 1
      /\ \A id \in IDs : Residences(id) > 0 => Has(evals, id)

\* what successive Dequeue calls on one class return when nothing else
\* intervenes, the first under the token
RECURSIVE successive(_, _, _)
successive(s, class, token) ==
    IF eligibleSched(s, {class}) = {} THEN << >>
    ELSE LET r == scanForSchedulers(s, {class}, class, token)
         IN <<r.eval>> \o successive(r.s, class, token + 1)

\* C3 (priority respect within a scan): the evaluation a Dequeue returns has
\* the greatest priority among the heads of the non-empty ready queues of the
\* requested classes, the head being what a pop of the queue returns.
PriorityRespect ==
    enabled =>
      \A schedulers \in SchedulerSets :
        \A sched \in eligibleSched(B, schedulers) :
          \A class \in schedulers :
            (Has(ready, class) /\ Len(ready[class]) > 0) =>
               scanForSchedulers(B, schedulers, sched, nextToken).eval.Priority
                  >= heapPopElem(ready[class]).Priority

\* C4 (priority ordering within one class): evaluations of pairwise distinct
\* job keys that are ready on one class are returned by successive Dequeue
\* calls on the class in non-increasing priority, those of equal priority in
\* ascending create index.
PriorityOrdering ==
    enabled =>
      \A class \in DOMAIN ready :
        LET d == successive(B, class, nextToken)
        IN (\A i, j \in 1 .. Len(d) : i # j => NamespacedID(d[i]) # NamespacedID(d[j]))
           => \A i, j \in 1 .. Len(d) :
                 i < j => \/ d[i].Priority > d[j].Priority
                          \/ /\ d[i].Priority = d[j].Priority
                             /\ d[i].CreateIndex < d[j].CreateIndex

\* C5 (delivery limit): with a limit of at least 1, a delivery out of the
\* evaluation's own class is at most the limit-th of its id; an id nacked at
\* or beyond the limit is in the ready queue of the failed class, not in its
\* own class's and not in the wait timers, and later deliveries of it come
\* out of the failed class.
DeliveryLimit ==
    (enabled /\ deliveryLimit >= 1) =>
      \A id \in DOMAIN evals :
        /\ (Has(unack, id) /\ unack[id].Queue = unack[id].Eval.Type)
              => evals[id] <= deliveryLimit
        /\ (Has(unack, id) /\ evals[id] > deliveryLimit)
              => unack[id].Queue = failedQueue
        /\ (~Has(unack, id) /\ evals[id] >= deliveryLimit)
              => /\ InReady(id, failedQueue)
                 /\ \A class \in DOMAIN ready \ {failedQueue} : ~InReady(id, class)
                 /\ ~Has(timeWait, id)

\* C5 witness: e1 was nacked at the limit, delivered out of the failed queue
\* and nacked again: it is back in the failed queue, one delivery beyond
\* the limit
DeliveryLimitWitness ==
    /\ enabled
    /\ Has(evals, "e1") /\ evals["e1"] = deliveryLimit + 1
    /\ InReady("e1", failedQueue)

\* the broker is configured as the back-off scenario is
InScenario ==
    [deliveryLimit |-> deliveryLimit, initialNackDelay |-> initialNackDelay,
     subsequentNackDelay |-> subsequentNackDelay] = Scenario

\* the id is nacked and parked, or ready again on its own class after the
\* wait, with the wait of the delay
ParkedWith(id, delay) ==
    \/ Has(timeWait, id) /\ timeWait[id].Eval.Wait = delay
    \/ \E pl \in ReadyPlaces :
         /\ ReadyAt(pl).ID = id
         /\ pl[1] = ReadyAt(pl).Type
         /\ ReadyAt(pl).Wait = delay

\* the id is in the failed queue, where a Dequeue of the failed class returns it
FailedAndReturned(id) ==
    /\ InReady(id, failedQueue)
    /\ ~Has(timeWait, id)
    /\ scanForSchedulers(B, {failedQueue}, failedQueue, nextToken).eval.ID = id

\* C6 as amended (nack back-off to failure): with limit 2 and delays of 10ms
\* and 20ms, the Nack after the first Dequeue parks E with a wait of 10ms, and
\* the Nack after the second Dequeue diverts E to the failed queue, where
\* Dequeue of the failed class returns it; E is never parked with 20ms.
BackoffToFailure ==
    (enabled /\ InScenario) =>
      \A id \in DOMAIN evals :
        ~Has(unack, id) =>
          /\ evals[id] = 1 => ParkedWith(id, 10)
          /\ evals[id] >= 2 => FailedAndReturned(id)
          /\ ~ParkedWith(id, 20)

\* C6 witness: under limit 2 the second delivery of e1 was nacked and e1 was
\* then delivered out of the failed queue
BackoffToFailureWitness ==
    /\ enabled /\ InScenario
    /\ Has(unack, "e1") /\ unack["e1"].Queue = failedQueue
    /\ evals["e1"] = 3

\* C6 as stated: the first Nack parks E with 10ms, the second parks E with
\* 20ms for a redelivery on its own class, and only the third diverts E to
\* the failed queue.
BackoffToFailureAsStated ==
    (enabled /\ InScenario) =>
      \A id \in DOMAIN evals :
        ~Has(unack, id) =>
          /\ evals[id] = 1 => ParkedWith(id, 10)
          /\ evals[id] = 2 => ParkedWith(id, 20)
          /\ evals[id] >= 3 => FailedAndReturned(id)

\* the id is delivered under the token
OutstandingUnder(id, token) == Has(unack, id) /\ unack[id].Token = token

\* the id is delivered under the token after the step
StillOutstandingUnder(id, token) == Has(unack', id) /\ unack'[id].Token = token

\* the step is an Ack or a Nack call that carries the token
Carries(token) == \E x \in IDs : DoAck(x, token) \/ DoNack(x, token)

\* what every step does to the requeue entry E of token T; unlessCarried
\* excepts the steps that are Ack or Nack calls carrying T
RequeueStep(T, unlessCarried) ==
    LET E == requeue[T]
        id == E.ID
    IN \* E is recorded for a delivery that is outstanding under T, and
       \* nothing of its id can be dequeued
       /\ OutstandingUnder(id, T)
       /\ Residences(id) = 1
       \* while the delivery stays outstanding the entry stays
       /\ StillOutstandingUnder(id, T)
            => \/ Has(requeue', T)
               \/ unlessCarried /\ Carries(T)
       /\ ~StillOutstandingUnder(id, T)
            => /\ ~Has(requeue', T)
               /\ IF DoAck(id, T) /\ Ack(B, id, T).err = "nil"
                  THEN \* the Ack admits E as a new evaluation
                       /\ Has(evals', id) /\ evals'[id] = 0
                       /\ \/ \E class \in DOMAIN ready' :
                                \E i \in 1 .. Len(ready'[class]) :
                                   ready'[class][i] = E /\ class = E.Type
                          \/ \E K \in DOMAIN blocked' :
                                \E i \in 1 .. Len(blocked'[K]) :
                                   blocked'[K][i] = E /\ K = NamespacedID(E)
                  ELSE \* the Nack drops E: the id goes on with its count
                       /\ \/ DoNack(id, T)
                          \/ Has(nackTimers, T) /\ NackTimerCallback(T)
                       /\ Has(evals', id) /\ evals'[id] = evals[id]

\* C7 as amended (requeue on Ack): an evaluation E' submitted by EnqueueAll
\* with the token T of the outstanding delivery of its id is not admitted
\* while the delivery is outstanding; it stays recorded through every step
\* that leaves the delivery outstanding and is no Ack or Nack call carrying T
\* (a failing one, for another id too, drops it); the Ack that succeeds admits
\* the recorded E' through the enqueue path, and a Nack of the delivery,
\* explicit or by its timer, drops it.
RequeueOnAck ==
    [][enabled => \A T \in DOMAIN requeue : RequeueStep(T, TRUE)]_vars

\* C7 witness: the later version of e1 is recorded under the token of the
\* outstanding delivery of e1, whose nack timer runs
RequeueOnAckWitness ==
    /\ enabled
    /\ \E T \in DOMAIN requeue :
         /\ requeue[T].ID = "e1" /\ requeue[T].CreateIndex = 4
         /\ OutstandingUnder("e1", T)
         /\ unack["e1"].Eval.CreateIndex = 1
         /\ nackTimers[T].Active

\* C7 as stated: E' stays recorded through every interleaving that leaves
\* the delivery outstanding under T, failing Ack and Nack calls for other
\* ids included.
RequeueOnAckAsStated ==
    [][enabled => \A T \in DOMAIN requeue : RequeueStep(T, FALSE)]_vars

\* the step is the successful Ack of the representative of job key K
AckOfRepresentative(K) ==
    /\ Has(jobEvals, K)
    /\ \E token \in Tokens :
         /\ DoAck(jobEvals[K], token)
         /\ Ack(B, jobEvals[K], token).err = "nil"

\* C8 (blocked-successor ordering): an evaluation in the blocked queue of job
\* key K is in no ready queue and not delivered, and leaves the blocked queue
\* only in the step of a successful Ack of K's representative; no Nack,
\* explicit or by timer, changes jobEvals or a blocked queue, whether it parks
\* the representative or diverts it to the failed queue.
BlockedSuccessorOrdering ==
    [][enabled =>
         /\ \A id \in IDs, token \in Tokens :
               /\ Nack(B, id, token).s.jobEvals = jobEvals
               /\ Nack(B, id, token).s.blocked = blocked
         /\ \A pl \in BlockedPlaces :
               /\ \A rp \in ReadyPlaces : ReadyAt(rp).ID # BlockedAt(pl).ID
               /\ ~Has(unack, BlockedAt(pl).ID)
               /\ Has(jobEvals, pl[1]) /\ jobEvals[pl[1]] # BlockedAt(pl).ID
         /\ \A K \in DOMAIN blocked :
               (~Has(blocked', K) \/ blocked'[K] # blocked[K])
                  => \/ AckOfRepresentative(K)
                     \/ /\ Has(blocked', K)
                        /\ Len(blocked'[K]) = Len(blocked[K]) + 1
                        /\ jobEvals' = jobEvals
      ]_vars

\* C8 witness: the representative e1 was nacked and is parked in the wait
\* timers while e2 is still in the job's blocked queue
BlockedSuccessorOrderingWitness ==
    /\ enabled
    /\ \E K \in DOMAIN blocked :
         /\ Len(blocked[K]) = 1 /\ blocked[K][1].ID = "e2"
         /\ Has(jobEvals, K) /\ jobEvals[K] = "e1"
         /\ Has(timeWait, "e1") /\ Has(evals, "e1") /\ evals["e1"] = 1

\* C9 (flush emptiness): right after SetEnabled(false), from every reachable
\* state, evals, jobEvals, blocked, ready, unack, waiting, requeue, timeWait
\* and the delay heap are empty and Stats() is all zero with no class entry.
FlushEmptiness ==
    [][(enabled /\ ~enabled') =>
          /\ evals' = EmptyMap /\ jobEvals' = EmptyMap /\ blocked' = EmptyMap
          /\ ready' = EmptyMap /\ unack' = EmptyMap /\ waiting' = EmptyMap
          /\ requeue' = EmptyMap /\ timeWait' = EmptyMap /\ delayHeap' = {}
          /\ stats' = NewStats
      ]_vars

\* C10 (disabled broker): a broker that was never enabled is disabled; while
\* the broker is disabled Enqueue and EnqueueAll, with any token, change no
\* container and no statistic, and Dequeue returns the disabled error and no
\* evaluation without waiting.
DisabledBroker ==
    /\ epoch = 0 => ~enabled
    /\ ~enabled =>
         /\ \A eval \in pool, token \in {NoToken, nextToken} \cup Tokens :
               processEnqueue(B, eval, token) = B
         /\ \A batch \in Batches : processAll(B, batch) = B
         /\ \A schedulers \in SchedulerSets :
               scanForSchedulers(B, schedulers, "", NoToken)
                  = [s |-> B, eval |-> NilEval, token |-> NoToken,
                     err |-> "eval broker disabled"]
         /\ last.op = "Dequeue" => last.err = "eval broker disabled"

\* C10 witness: the broker was enabled, flushed with a requeue left behind,
\* and a Dequeue then returned the disabled error
DisabledBrokerWitness ==
    /\ ~enabled /\ epoch = 1
    /\ requeue # EmptyMap
    /\ last = [op |-> "Dequeue", err |-> "eval broker disabled"]

\* caller d is in a call of Dequeue
InDequeue(d) == dequeuers[d].pc # "idle"

\* the call of Dequeue of caller d has returned the disabled error
ReturnedDisabled(d) ==
    dequeuers[d].pc = "idle" /\ dequeuers[d].err = "eval broker disabled"

\* C11 (disable wakes all dequeuers): a Dequeue call with timeout 0 that is
\* in progress when the broker is disabled, between its scan and its wait or
\* blocked in the wait, returns the disabled error if the broker stays
\* disabled; none stays blocked for ever.
DisableWakesDequeuers ==
    \A d \in Callers :
        [](( ~enabled /\ InDequeue(d)) => <>(enabled \/ ReturnedDisabled(d)))

\* caller d waits, or is about to, for a class whose ready queue is not empty
WaitsWithWork(d) ==
    /\ dequeuers[d].pc \in {"wait", "blocked"}
    /\ \E class \in dequeuers[d].schedulers :
          Has(ready, class) /\ Len(ready[class]) > 0

\* C12 (no lost wake-up): while the broker is enabled no Dequeue call with
\* timeout 0 stays blocked for ever while a ready queue of its classes stays
\* non-empty, with several callers and coalesced 1-slot signals.
NoLostWakeup ==
    \A d \in Callers : []<>(~enabled \/ ~WaitsWithWork(d))

\* the token is the token of an outstanding delivery
Delivered(token) == \E id \in DOMAIN unack : unack[id].Token = token

\* the nack timer of the delivery under the token runs
Armed(token) ==
    Delivered(token) /\ Has(nackTimers, token) /\ nackTimers[token].Active

\* the nack timer of the delivery under the token was stopped by
\* PauseNackTimeout and not started again
Paused(token) ==
    /\ Delivered(token) /\ Has(nackTimers, token)
    /\ ~nackTimers[token].Active /\ ~nackTimers[token].Fired

\* the id is parked in the wait timers or ready on its class or on the
\* failed class after the step
RequeuedAfter(id, class) ==
    \/ Has(timeWait', id)
    \/ \E q \in {class, failedQueue} :
          Has(ready', q) /\ \E i \in 1 .. Len(ready'[q]) : ready'[q][i].ID = id

\* C13 (implicit Nack): while the broker is enabled a delivery whose nack
\* timer is armed, and which is neither acked nor paused, is eventually
\* removed from unack; the timer's Nack(id, token) that removes it leaves the
\* evaluation tracked and in the wait timers, its class's ready queue or the
\* failed ready queue.
ImplicitNack ==
    /\ \A token \in AllTokens :
          [](Armed(token) => <>(~Delivered(token) \/ Paused(token)))
    /\ [][\A id \in IDs, token \in Tokens :
            (OutstandingUnder(id, token) /\ Has(nackTimers, token)
               /\ NackTimerCallback(token))
              => /\ ~Has(unack', id)
                 /\ Has(evals', id) /\ evals'[id] = evals[id]
                 /\ RequeuedAfter(id, unack[id].Eval.Type)
        ]_vars

\* C13 witness: nobody nacks, and e1 is parked in the wait timers after its
\* first delivery: its nack timer has fired and nacked it
ImplicitNackWitness ==
    /\ enabled
    /\ Has(timeWait, "e1") /\ ~Has(unack, "e1")
    /\ Has(evals, "e1") /\ evals["e1"] = 1

\* C14 (pause and resume): after a PauseNackTimeout that succeeded no
\* implicit Nack of the delivery happens while it is paused: the callback of
\* its timer leaves the entry in unack under its token and the attempt
\* counter as it is; ResumeNackTimeout arms the timer, and an Ack before it
\* fires succeeds.
PauseResume ==
    [][\A id \in IDs, token \in Tokens :
          OutstandingUnder(id, token) =>
            /\ (Paused(token) /\ NackTimerCallback(token))
                  => StillOutstandingUnder(id, token) /\ evals' = evals
            /\ LET r == ResumeNackTimeout(B, id, token)
               IN /\ r.err = "nil"
                  /\ r.s.nackTimers[token].Active
                  /\ Ack(r.s, id, token).err = "nil"
      ]_vars

\* the nack timer of the token has expired: its callback has run or waits
\* for the lock
HasFired(token) ==
    Has(nackTimers, token)
    /\ (nackTimers[token].Fired \/ nackTimers[token].Pending > 0)

\* C16 (Ack racing the nack timer): when the nack timer of an outstanding
\* delivery has fired and its callback has not yet run, Ack(id, T) fails with
\* the error of an Ack after the timer's expiration and leaves unack, evals,
\* jobEvals, blocked, ready and the statistics as they are, and the callback
\* then nacks the delivery; a delivery that is resolved is not resolved again.
AckRacesTimer ==
    \A id \in IDs, token \in Tokens :
      /\ (OutstandingUnder(id, token) /\ Has(nackTimers, token)
            /\ nackTimers[token].Pending > 0)
           => /\ Ack(B, id, token).err = "Ack'd after Nack timer expiration"
              /\ Ack(B, id, token).s = dropRequeue(B, token)
              /\ Nack(B, id, token).err = "nil"
              /\ ~Has(Nack(B, id, token).s.unack, id)
      /\ ~OutstandingUnder(id, token)
           => /\ Ack(B, id, token).err # "nil"
              /\ Nack(B, id, token).err # "nil"
              /\ Ack(B, id, token).s = dropRequeue(B, token)
              /\ Nack(B, id, token).s = dropRequeue(B, token)

\* the errors that say that the nack timer has expired
TimerErrors == {"Ack'd after Nack timer expiration", "ErrNackTimeoutReached"}

\* C17 (timer-expiry errors only on expiry): for an outstanding delivery
\* with the matching token, Ack, OutstandingReset and PauseNackTimeout return
\* their timer-expired error only if the nack timer has fired (so on a timer
\* that is paused and has not fired they succeed), and a call that returns
\* such an error leaves the timer as it is.
ExpiryErrorsOnlyOnExpiry ==
    \A id \in IDs, token \in Tokens :
      OutstandingUnder(id, token) =>
        \A r \in {Ack(B, id, token), OutstandingReset(B, id, token),
                   PauseNackTimeout(B, id, token)} :
          r.err \in TimerErrors
            => /\ HasFired(token)
               /\ r.s.nackTimers[token] = nackTimers[token]

\* C15 (de-duplication): while the broker is enabled, Enqueue of an
\* evaluation whose id is in a ready queue, a blocked queue, the wait timers,
\* the delay heap or the unack table changes no container and no statistic,
\* and EnqueueAll with a token for such an id changes nothing, unless the id
\* is outstanding under exactly that token, and then only requeue changes.
Deduplication ==
    enabled =>
      \A eval \in pool :
        Residences(eval.ID) > 0 =>
          /\ processEnqueue(B, eval, NoToken) = B
          /\ \A token \in Tokens \cup {nextToken} :
                LET r == processAll(B, <<[eval |-> eval, token |-> token]>>)
                IN IF OutstandingUnder(eval.ID, token)
                   THEN /\ [r EXCEPT !.requeue = requeue] = B
                        /\ r.requeue = Put(requeue, token, eval)
                   ELSE r = B

\* the errors that say that the token is not the delivery's
MismatchErrors == {"Token does not match", "ErrTokenMismatch"}

\* C18 (stale tokens are harmless): once an evaluation is delivered under a
\* token, every Ack, Nack, OutstandingReset, PauseNackTimeout and
\* ResumeNackTimeout that carries another token, and the late callback of
\* that token's nack timer, returns a token-mismatch error and leaves the
\* delivery, its timer, the attempt counter, the queues and the statistics
\* as they are.
StaleTokensHarmless ==
    \A id \in DOMAIN unack :
      \A token \in Tokens \ {unack[id].Token} :
        /\ \A r \in {Ack(B, id, token), Nack(B, id, token),
                      OutstandingReset(B, id, token),
                      PauseNackTimeout(B, id, token),
                      ResumeNackTimeout(B, id, token)} :
              /\ r.err \in MismatchErrors
              /\ [r.s EXCEPT !.requeue = requeue] = B
        /\ (Has(nackTimers, token) /\ nackTimers[token].Pending > 0)
              => LET s == [B EXCEPT !.nackTimers[token].Pending = @ - 1]
                     r == Nack(s, nackTimers[token].ID, token)
                 IN /\ r.err \in MismatchErrors
                    /\ [r.s EXCEPT !.requeue = requeue] = s

\* C18 witness: e1 is delivered again under a later token while the callback
\* of the nack timer of an earlier token of e1 still waits for the lock
StaleTokensHarmlessWitness ==
    /\ Has(unack, "e1")
    /\ \E token \in DOMAIN nackTimers :
          /\ token < unack["e1"].Token
          /\ nackTimers[token].ID = "e1"
          /\ nackTimers[token].Pending > 0

\* the delay d(n) after a Nack of a delivery whose attempt counter is n
BackoffDelay(n) ==
    CASE n <= 0 -> 0
      [] n = 1 -> initialNackDelay
      [] n >= 2 -> (n - 1) * subsequentNackDelay

\* the id is in no ready queue of the broker s
NotReadyIn(s, id) ==
    \A q \in DOMAIN s.ready : \A i \in 1 .. Len(s.ready[q]) : s.ready[q][i].ID # id

\* C19 (back-off formula): a Nack of a delivery whose attempt counter n is
\* below the delivery limit re-admits the evaluation after d(n), with d(n) = 0
\* for n <= 0, the initial delay for n = 1 and (n - 1) times the subsequent
\* delay for n >= 2; with d(n) > 0 the evaluation is put in the wait timers,
\* counted in TotalWaiting and in no ready queue until the timer fires, and
\* with d(n) = 0 it is put in the ready queue of its class at once.
BackoffFormula ==
    /\ \A n \in -1 .. MaxTokens + 1 : nackReenqueueDelay(n) = BackoffDelay(n)
    /\ enabled =>
         /\ \A id \in DOMAIN timeWait : NotReadyIn(B, id) /\ ~Has(unack, id)
         /\ \A id \in DOMAIN unack :
               LET n == evals[id]
                   class == unack[id].Eval.Type
                   r == Nack(B, id, unack[id].Token).s
               IN n < deliveryLimit =>
                    IF BackoffDelay(n) > 0
                    THEN /\ Has(r.timeWait, id)
                         /\ r.timeWait[id].Eval.Wait = BackoffDelay(n)
                         /\ ~r.timeWait[id].Fired
                         /\ r.stats.TotalWaiting = stats.TotalWaiting + 1
                         /\ r.stats.TotalReady = stats.TotalReady
                         /\ NotReadyIn(r, id)
                    ELSE /\ ~Has(r.timeWait, id)
                         /\ r.stats.TotalWaiting = stats.TotalWaiting
                         /\ r.stats.TotalReady = stats.TotalReady + 1
                         /\ \E i \in 1 .. Len(r.ready[class]) :
                               r.ready[class][i].ID = id

\* C19 witness: the third delivery of e1 was nacked below the limit of 4 and
\* e1 is parked with twice the subsequent delay
BackoffFormulaWitness ==
    /\ enabled /\ subsequentNackDelay = 20
    /\ Has(evals, "e1") /\ evals["e1"] = 3 /\ deliveryLimit = 4
    /\ Has(timeWait, "e1") /\ timeWait["e1"].Eval.Wait = 40
    /\ stats.TotalWaiting = 1

\* the evaluation was enqueued with a deadline and no wait
Delayed(e) == e.Wait = 0 /\ e.WaitUntil # ZeroTime /\ Has(evals, e.ID)

\* the id is in a ready queue, a blocked queue or the unack table
Admitted(id) ==
    \/ \E pl \in ReadyPlaces : ReadyAt(pl).ID = id
    \/ \E pl \in BlockedPlaces : BlockedAt(pl).ID = id
    \/ Has(unack, id)

\* C20 (delayed evaluations): while the broker is enabled an evaluation that
\* was enqueued with a deadline stays in the delay heap, and is in no ready
\* queue, blocked queue or unack entry, before the clock reaches its deadline,
\* under every interleaving of update signals, later enqueues and firings of
\* the watcher's timer.
DelayedUntilDeadline ==
    enabled =>
      \A e \in pool :
        (Delayed(e) /\ now < e.WaitUntil)
           => e \in delayHeap /\ ~Admitted(e.ID)

\* the other half of the delayed path: an evaluation in the delay heap whose
\* deadline the clock has reached is eventually taken from the heap
DelayedEventuallyAdmitted ==
    \A e \in DelayedPools :
      \A x \in e :
        []((enabled /\ x \in delayHeap /\ now >= x.WaitUntil)
              => <>(x \notin delayHeap))

\* the scheduler classes that have a ready queue, a statistics entry or a
\* delivery popped from their queue
Classes ==
    DOMAIN ready \cup DOMAIN stats.ByScheduler
        \cup {unack[id].Queue : id \in DOMAIN unack}

\* the per-class counters, zero for a class without an entry
BySched(c) ==
    IF Has(stats.ByScheduler, c) THEN stats.ByScheduler[c] ELSE NewSchedulerStats

\* C21 (statistics mirror the containers): while the broker is enabled
\* TotalReady is the number of evaluations in the ready queues, TotalUnacked
\* the size of unack, TotalBlocked the number of evaluations in the blocked
\* queues, TotalWaiting the size of the wait timers plus the delay heap, and
\* for every class c the counter Ready is the length of ready[c] and the
\* counter Unacked the number of unack entries popped from ready[c], the
\* failed queue included; no counter is negative.
StatsMirror ==
    enabled =>
      /\ stats.TotalReady = Cardinality(ReadyPlaces)
      /\ stats.TotalUnacked = Cardinality(DOMAIN unack)
      /\ stats.TotalBlocked = Cardinality(BlockedPlaces)
      /\ stats.TotalWaiting = Cardinality(DOMAIN timeWait) + Cardinality(delayHeap)
      /\ \A c \in Classes :
            /\ BySched(c).Ready = (IF Has(ready, c) THEN Len(ready[c]) ELSE 0)
            /\ BySched(c).Unacked =
                  Cardinality({id \in DOMAIN unack : unack[id].Queue = c})
            /\ BySched(c).Ready >= 0
            /\ BySched(c).Unacked >= 0
      /\ stats.TotalReady >= 0 /\ stats.TotalUnacked >= 0
      /\ stats.TotalBlocked >= 0 /\ stats.TotalWaiting >= 0

\* the nack timer of the token has fired and no delivery holds the token: its
\* callback runs after the delivery was flushed
StaleNackTimer(token) ==
    /\ nackTimers[token].Pending > 0
    /\ token \notin Outstanding

\* the callback of a nack timer, of a wait timer or of the watcher's timer
\* runs after the flush that was to stop it
StaleCallback ==
    \/ \E token \in DOMAIN nackTimers :
          StaleNackTimer(token) /\ NackTimerCallback(token)
    \/ \E timer \in BagToSet(orphanTimers) : OrphanTimerCallback(timer)
    \/ \E w \in DOMAIN watchers : Cancelled(w) /\ WatcherEnqueue(w)

\* C22 (callbacks that outlive a flush are no-ops): the callback of a nack
\* timer, of a wait timer or of the watcher's timer that had fired when
\* SetEnabled(false) flushed changes no container and no statistic when it
\* runs afterwards, be the broker still disabled or enabled again:
\* TotalWaiting does not go below 0 and nothing is admitted to a ready or
\* blocked queue without an entry in the attempt counter.
StaleCallbacksAreNoOps ==
    [][StaleCallback =>
          /\ UNCHANGED <<stats, evals, jobEvals, blocked, ready, unack,
                         timeWait, delayHeap>>
          /\ stats'.TotalWaiting >= 0
          /\ \A q \in DOMAIN ready' :
                \A i \in 1 .. Len(ready'[q]) : Has(evals', ready'[q][i].ID)
          /\ \A k \in DOMAIN blocked' :
                \A i \in 1 .. Len(blocked'[k]) : Has(evals', blocked'[k][i].ID)]_vars

\* how often x occurs in the queue p
Count(p, x) == Cardinality({i \in 1 .. Len(p) : p[i] = x})

\* the queue of the map m under key k, empty without an entry
QueueOf(m, k) == IF Has(m, k) THEN m[k] ELSE << >>

\* what the step of the successful Ack(id, token) does when the job key of
\* the delivery has blocked evaluations; plainOnly restricts the part on
\* the requeue entry to entries with neither wait nor deadline
Handover(id, token, plainOnly) ==
    LET K == NamespacedID(unack[id].Eval)
        blk == QueueOf(blocked, K)
        elems == {blk[i] : i \in 1 .. Len(blk)}
        first == CHOOSE x \in elems : \A y \in elems : x.CreateIndex <= y.CreateIndex
        hasE == Has(requeue, token) /\ NamespacedID(requeue[token]) = K
        E == requeue[token]
        plain == E.Wait = 0 /\ E.WaitUntil = ZeroTime
        after == QueueOf(blocked', K)
    IN Len(blk) > 0 =>
         \* the blocked evaluation with the smallest create index is the
         \* job's representative and is in the ready queue of its type
         /\ Has(jobEvals', K) /\ jobEvals'[K] = first.ID
         /\ Count(QueueOf(ready', first.Type), first)
               = Count(QueueOf(ready, first.Type), first) + 1
         \* it is the one evaluation that becomes ready
         /\ Cardinality(ReadyPlaces') = Cardinality(ReadyPlaces) + 1
         /\ \A x \in elems \ {first} : Count(after, x) >= Count(blk, x)
         /\ Count(after, first) = Count(blk, first) - 1
         \* the requeue entry comes after it: blocked behind the promoted one
         /\ (hasE /\ (plainOnly => plain))
               => /\ Count(after, E) = Count(blk, E) + 1
                  /\ Len(after) = Len(blk)
                  /\ \A q \in DOMAIN ready' : Count(ready'[q], E) = Count(QueueOf(ready, q), E)
         /\ ~hasE => Len(after) = Len(blk) - 1

\* C23 as amended (Ack hand-over order): a successful Ack of the
\* representative of job key K promotes exactly one blocked evaluation of K,
\* the one with the smallest create index whatever its priority, into the
\* ready queue of its own type and makes it K's representative, before it
\* processes the requeue entry; a requeue entry of job key K with neither a
\* wait nor a deadline is therefore in K's blocked queue after the Ack.
AckHandover ==
    [][enabled =>
         \A id \in IDs, token \in Tokens :
            (DoAck(id, token) /\ Ack(B, id, token).err = "nil")
               => Handover(id, token, TRUE)]_vars

\* C23 witness: after the Ack of e1, which carried a requeue of e1, e2 of
\* priority 10 is ready in its class B and is the job's representative, and
\* e3 of priority 90 and the requeued e1 are in the job's blocked queue
AckHandoverWitness ==
    /\ enabled
    /\ unack = EmptyMap /\ requeue = EmptyMap /\ nextToken = 2
    /\ \E K \in DOMAIN blocked :
         /\ jobEvals[K] = "e2"
         /\ InReady("e2", "B")
         /\ Len(blocked[K]) = 2
         /\ \E i, j \in 1 .. 2 :
               /\ blocked[K][i].ID = "e3"
               /\ blocked[K][j].ID = "e1" /\ blocked[K][j].CreateIndex = 4
    /\ Has(stats.ByScheduler, "A") /\ stats.ByScheduler["A"].Ready = 0

\* C23 as stated: whenever the acked token has a requeue entry of the same
\* job key, the entry is in K's blocked queue after the Ack.
AckHandoverAsStated ==
    [][enabled =>
         \A id \in IDs, token \in Tokens :
            (DoAck(id, token) /\ Ack(B, id, token).err = "nil")
               => Handover(id, token, FALSE)]_vars

\* C24 (Ack finds its statistics entry): under every delivery limit from 0
\* on, in every reachable state, an Ack that passes its id, token and timer
\* checks finds the ByScheduler entry of the class it charges, the
\* evaluation's type or the failed queue when the attempt counter exceeds the
\* limit: it completes and returns success, and no Ack has aborted.
AckFindsStatsEntry ==
    /\ ~panicked
    /\ \A id \in DOMAIN unack :
          TimerActive(B, unack[id].Token)
             => /\ Ack(B, id, unack[id].Token).err = "nil"
                /\ ~Ack(B, id, unack[id].Token).s.panicked

====
